---- MODULE Spec2Model ----
(***************************************************************************)
(* Bridge ledger program (Solana): InitializeBridge, AddBlockchain,        *)
(* AddValidator and AddSignature over a store of addressed accounts.       *)
(* Every instruction is one atomic step: the runtime keeps the writes of a *)
(* handler that returns Ok and discards those of one that returns an error.*)
(***************************************************************************)
EXTENDS Integers, Sequences, FiniteSets, TLC

VARIABLES accounts, last

vars == <<accounts, last>>

\* ------------------------------------------------------------------ bounds
\* Caps on the counters, applied in the guards of Next only.
MaxValidators == 2
MaxLocks == 2
MaxSignatures == 3
MaxTextLen == 5

\* ------------------------------------------------------- program constants
PROGRAM_VERSION == 1
TX_ID_LEN == 64
SEED_PREFIX_LEN == 20
MAX_SEED_LEN == 32
CHAIN_ID_LEN == 4

\* ------------------------------------------------------------- identifiers
\* BlockchainId = [u8; 4]: left-justified, NUL-padded text.
ETH == <<69, 84, 72, 0>>
BSC == <<66, 83, 67, 0>>
\* "ETH" written right-justified: another 4-byte value with the same text
\* once the NUL bytes are trimmed.
NulETH == <<0, 69, 84, 72>>
ZeroChain == <<0, 0, 0, 0>>

\* Pubkey / Address values are opaque 32-byte strings; the all-zero value is
\* what a freshly allocated account holds.
ZeroKey == "0"

\* TxId = [u8; 64]
TxA == [i \in 1..TX_ID_LEN |-> 9]
\* differs from TxA in the last (least significant) byte only
TxA2 == [i \in 1..TX_ID_LEN |-> IF i = TX_ID_LEN THEN 10 ELSE 9]
TxB == [i \in 1..TX_ID_LEN |-> 7]
ZeroTx == [i \in 1..TX_ID_LEN |-> 0]

\* --------------------------------------------------------- identifier codec
\* The characters of the bytes the model uses (ASCII).
Chr(b) ==
  CASE b = 0 -> "\\0" [] b = 66 -> "B" [] b = 67 -> "C" [] b = 69 -> "E"
    [] b = 72 -> "H" [] b = 83 -> "S" [] b = 84 -> "T" [] OTHER -> "?"

\* std::str::from_utf8 on bytes: every byte below 128 is a one-byte character;
\* the model's only other byte, 255, never occurs in valid UTF-8.
Utf8Valid(bytes) == \A i \in 1..Len(bytes) : bytes[i] < 128

RECURSIVE TrimStart(_)
TrimStart(s) == IF s # <<>> /\ Head(s) = 0 THEN TrimStart(Tail(s)) ELSE s

RECURSIVE TrimEnd(_)
TrimEnd(s) ==
  IF s # <<>> /\ s[Len(s)] = 0 THEN TrimEnd(SubSeq(s, 1, Len(s) - 1)) ELSE s

RECURSIVE Str(_)
Str(s) == IF s = <<>> THEN "" ELSE Chr(Head(s)) \o Str(Tail(s))

\* chain_id_to_str: trim_matches(0 as char) strips NULs at both ends.
TrimMatches(chain_id) == Str(TrimEnd(TrimStart(chain_id)))

\* The strings of the chain ids the scenarios use, computed once.
ChainIdStrings == {<<id, TrimMatches(id)>> : id \in {ETH, BSC, NulETH, ZeroChain}}

chain_id_to_str(chain_id) ==
  IF \E p \in ChainIdStrings : p[1] = chain_id
    THEN (CHOOSE p \in ChainIdStrings : p[1] = chain_id)[2]
    ELSE TrimMatches(chain_id)

\* str_to_chain_id: the text's bytes, left-justified in four zero bytes. The
\* copy into result[..str_len] panics when the text is longer than the array.
str_to_chain_id(text) ==
  IF Len(text) > CHAIN_ID_LEN THEN [res |-> "Panic", id |-> ZeroChain]
  ELSE [res |-> "Ok",
        id |-> [i \in 1..CHAIN_ID_LEN |-> IF i <= Len(text) THEN text[i] ELSE 0]]

\* chain_id_to_str with its error: [res, text].
DecodeChainId(chain_id) ==
  IF ~Utf8Valid(chain_id) THEN [res |-> "InvalidArgument", text |-> ""]
  ELSE [res |-> "Ok", text |-> chain_id_to_str(chain_id)]

\* ------------------------------------------------------------------- base58
Bs58Alphabet ==
  << "1", "2", "3", "4", "5", "6", "7", "8", "9", "A", "B", "C", "D", "E", "F",
     "G", "H", "J", "K", "L", "M", "N", "P", "Q", "R", "S", "T", "U", "V", "W",
     "X", "Y", "Z", "a", "b", "c", "d", "e", "f", "g", "h", "i", "j", "k", "m",
     "n", "o", "p", "q", "r", "s", "t", "u", "v", "w", "x", "y", "z" >>

\* One digit step of the long division of a big-endian base-256 number by 58.
DivStep(bytes, i, st) ==
  LET cur == st.r * 256 + bytes[i]
  IN [q |-> Append(st.q, cur \div 58), r |-> cur % 58]

\* The division steps for the bytes lo..hi, in order. The range is split in
\* halves and the left half is evaluated first (the test on it is never true;
\* it only fixes the evaluation order), which keeps the evaluation shallow.
RECURSIVE DivRange(_, _, _, _)
DivRange(bytes, lo, hi, st) ==
  IF lo > hi THEN st
  ELSE IF lo = hi THEN DivStep(bytes, lo, st)
  ELSE LET mid == (lo + hi) \div 2
           left == DivRange(bytes, lo, mid, st)
       IN IF left.r < 0 THEN left ELSE DivRange(bytes, mid + 1, hi, left)

DivMod58(bytes) == DivRange(bytes, 1, Len(bytes), [q |-> <<>>, r |-> 0])

AllZero(bytes) == \A i \in 1..Len(bytes) : bytes[i] = 0

\* One base-58 digit: the remainder is the next digit, least significant first.
Bs58Step(s) ==
  IF AllZero(s.num) THEN s
  ELSE LET d == DivMod58(s.num)
       IN [num |-> d.q, digits |-> <<d.r>> \o s.digits]

RECURSIVE Bs58Steps(_, _)
Bs58Steps(s, n) ==
  IF n = 0 THEN s
  ELSE IF n = 1 THEN Bs58Step(s)
  ELSE LET half == Bs58Steps(s, n \div 2)
       IN IF Len(half.digits) < 0 THEN half ELSE Bs58Steps(half, n - n \div 2)

\* The base-58 digits of the number, most significant first; a number of
\* len bytes has at most len * 138 / 100 + 1 digits.
Bs58Number(bytes) ==
  Bs58Steps([num |-> bytes, digits |-> <<>>], (Len(bytes) * 138) \div 100 + 1).digits

LeadingZeros(bytes) == Len(bytes) - Len(TrimStart(bytes))

\* bs58::encode: one "1" per leading zero byte, then the digits.
Bs58Encode(bytes) ==
  [i \in 1..LeadingZeros(bytes) |-> 0] \o Bs58Number(bytes)

RECURSIVE Bs58Str(_)
Bs58Str(d) == IF d = <<>> THEN "" ELSE Bs58Alphabet[Head(d) + 1] \o Bs58Str(Tail(d))

\* &bs58::encode(&tx_id).into_string()[..20]
TxIdPrefix(tx_id) == Bs58Str(SubSeq(Bs58Encode(tx_id), 1, SEED_PREFIX_LEN))

\* The tx ids the model submits, and their seed prefixes (computed once).
TxIds == {TxA, TxA2, TxB}
\* The seed prefixes of the scenarios' transaction ids, computed once.
TxPrefix == {<<t, TxIdPrefix(t)>> : t \in TxIds \cup {ZeroTx}}

\* --------------------------------------------------------------- addressing
\* Pubkey::find_program_address(&[seed], program_id): the program-derived
\* authority of a 32-byte seed (a bridge key or a user address). The hash is
\* modelled as an injective encoding of its inputs.
FindProgramAddress(seed) == "pda(" \o seed \o ")"

\* Pubkey::create_with_seed(base, seed, program_id)
CreateWithSeed(base, seed) == base \o "/" \o seed

TxIdPrefixOf(tx_id) ==
  IF \E p \in TxPrefix : p[1] = tx_id
    THEN (CHOOSE p \in TxPrefix : p[1] = tx_id)[2]
    ELSE TxIdPrefix(tx_id)

BlockchainSeed(blockchain_id) == "blockchain_" \o chain_id_to_str(blockchain_id)

ValidatorSeed(blockchain_id, index) ==
  "validator_" \o chain_id_to_str(blockchain_id) \o "_" \o ToString(index)

LockSeed(source, tx_id) ==
  "lock_" \o chain_id_to_str(source) \o "_" \o TxIdPrefixOf(tx_id)

SignatureSeed(source, lock_id, index) ==
  "signature_lock_" \o chain_id_to_str(source) \o "_" \o ToString(lock_id)
     \o "_" \o ToString(index)

UserSeed(blockchain_id) == "user_" \o chain_id_to_str(blockchain_id)

SentLockSeed(blockchain_id, index) ==
  "sent_" \o chain_id_to_str(blockchain_id) \o "_" \o ToString(index)

ReceivedLockSeed(blockchain_id, index) ==
  "received_" \o chain_id_to_str(blockchain_id) \o "_" \o ToString(index)

\* The shared body of the check_and_get_*_account_seed functions: decode the
\* chain id, derive the expected address, compare it with the supplied one.
CheckSeed(chain_id, seed, authority, account) ==
  IF ~Utf8Valid(chain_id) THEN "InvalidArgument"
  ELSE IF Len(seed) > MAX_SEED_LEN THEN "MaxSeedLengthExceeded"
  ELSE IF CreateWithSeed(authority, seed) # account THEN "InvalidSeeds"
  ELSE "Ok"

validate_bridge_authority(bridge_account, authority_account) ==
  IF FindProgramAddress(bridge_account) # authority_account THEN "InvalidSeeds" ELSE "Ok"

validate_user_address_authority(user_address, authority_account) ==
  IF FindProgramAddress(user_address) # authority_account THEN "InvalidSeeds" ELSE "Ok"

\* ------------------------------------------------------------------ records
Empty == [t |-> "Empty"]

\* Account data as allocated: all bytes zero.
ZeroBridge(exempt) == [t |-> "Bridge", version |-> 0, owner |-> ZeroKey, exempt |-> exempt]

ZeroBlockchain ==
  [t |-> "Blockchain", version |-> 0, bridge |-> ZeroKey, blockchain_id |-> ZeroChain,
   validators |-> 0, locks |-> 0, contract_address |-> ZeroKey]

ZeroValidator ==
  [t |-> "Validator", version |-> 0, blockchain_id |-> ZeroChain, index |-> 0,
   pub_key |-> ZeroKey, owner |-> ZeroKey]

ZeroLock ==
  [t |-> "Lock", version |-> 0, index |-> 0, lock_id |-> 0, tx_id |-> ZeroTx,
   bridge |-> ZeroKey, token_source_address |-> ZeroKey, token_source |-> ZeroChain,
   source |-> ZeroChain, sender |-> ZeroKey, recipient |-> ZeroKey,
   destination |-> ZeroChain, amount |-> 0, signatures |-> 0]

ZeroSignature ==
  [t |-> "Signature", version |-> 0, index |-> 0, bridge |-> ZeroKey,
   signature |-> 0, validator |-> ZeroKey]

ZeroUser ==
  [t |-> "User", version |-> 0, blockchain_id |-> ZeroChain, address |-> ZeroKey,
   sent |-> 0, received |-> 0]

ZeroSentLock == [t |-> "SentLock", version |-> 0, tx_id |-> ZeroTx]

ZeroReceivedLock == [t |-> "ReceivedLock", version |-> 0, tx_id |-> ZeroTx]

NewBridge(owner, exempt) ==
  [t |-> "Bridge", version |-> PROGRAM_VERSION, owner |-> owner, exempt |-> exempt]

NewBlockchain(bridge, blockchain_id, contract_address) ==
  [t |-> "Blockchain", version |-> PROGRAM_VERSION, bridge |-> bridge,
   blockchain_id |-> blockchain_id, validators |-> 0, locks |-> 0,
   contract_address |-> contract_address]

\* A constructor that drops the index it is given.
NewValidatorUnindexed(blockchain_id, index, pub_key, owner) ==
  [t |-> "Validator", version |-> PROGRAM_VERSION, blockchain_id |-> blockchain_id,
   index |-> 0, pub_key |-> pub_key, owner |-> owner]

NewValidator(blockchain_id, index, pub_key, owner) ==
  [t |-> "Validator", version |-> PROGRAM_VERSION, blockchain_id |-> blockchain_id,
   index |-> index, pub_key |-> pub_key, owner |-> owner]

NewLock(index, lock_id, tx_id, bridge, token_source_address, token_source, source, sender, recipient, destination, amount) ==
  [t |-> "Lock", version |-> PROGRAM_VERSION, index |-> index, lock_id |-> lock_id,
   tx_id |-> tx_id, bridge |-> bridge, token_source_address |-> token_source_address,
   token_source |-> token_source, source |-> source, sender |-> sender,
   recipient |-> recipient, destination |-> destination, amount |-> amount,
   signatures |-> 0]

NewSignature(index, bridge, signature, validator) ==
  [t |-> "Signature", version |-> PROGRAM_VERSION, index |-> index, bridge |-> bridge,
   signature |-> signature, validator |-> validator]

NewUser(blockchain_id, address) ==
  [t |-> "User", version |-> PROGRAM_VERSION, blockchain_id |-> blockchain_id,
   address |-> address, sent |-> 0, received |-> 0]

NewSentLock(tx_id) == [t |-> "SentLock", version |-> PROGRAM_VERSION, tx_id |-> tx_id]

NewReceivedLock(tx_id) ==
  [t |-> "ReceivedLock", version |-> PROGRAM_VERSION, tx_id |-> tx_id]

\* A version test that also accepts the zero version of a fresh account.
IsInitializedUpTo(rec) == rec.version <= PROGRAM_VERSION

is_initialized(rec) == rec.version = PROGRAM_VERSION

\* ------------------------------------------------------------ account store
\* acc maps the addresses that hold data to their record; every other address
\* is an account with empty data.
Data(acc, a) == IF a \in DOMAIN acc THEN acc[a] ELSE Empty

data_is_empty(acc, a) == a \notin DOMAIN acc

\* T::try_from_slice(data) succeeds only on data of exactly T's length; the
\* record types have pairwise different lengths.
CanRead(acc, a, t) == Data(acc, a).t = t

\* rec.serialize(&mut data)
Write(acc, a, rec) == [x \in DOMAIN acc \cup {a} |-> IF x = a THEN rec ELSE acc[x]]

R(res, acc) == [res |-> res, acc |-> acc]

\* The ? operator: a failed check returns its error, else the handler goes on.
Try(res, acc, rest) == IF res # "Ok" THEN R(res, acc) ELSE rest

\* An allocation that does not refuse an address already in use.
CreateOverExisting(acc, payer_signer, new_account, zero) ==
  IF ~payer_signer THEN R("PrivilegeEscalation", acc)
  ELSE R("Ok", Write(acc, new_account, zero))

\* An allocation that takes an address already in use as allocated.
CreateIfAbsent(acc, payer_signer, new_account, zero) ==
  IF ~payer_signer THEN R("PrivilegeEscalation", acc)
  ELSE IF ~data_is_empty(acc, new_account) THEN R("Ok", acc)
  ELSE R("Ok", Write(acc, new_account, zero))

\* invoke_signed(system_instruction::create_account_with_seed(..)): the payer
\* must have signed the transaction and the new address must be unused; the
\* new account holds zeroed data of the given length.
create_account_with_seed(acc, payer_signer, new_account, zero) ==
  IF ~payer_signer THEN R("PrivilegeEscalation", acc)
  ELSE IF ~data_is_empty(acc, new_account) THEN R("AccountAlreadyInUse", acc)
  ELSE R("Ok", Write(acc, new_account, zero))

\* ----------------------------------------------------------------- handlers
\* A handler maps the accounts and a call to R(result, accounts written so
\* far); the runtime commits the accounts only when the result is "Ok".

\* An InitializeBridge that does not ask for rent exemption.
InitBridgeUnfunded(acc, c) ==
  IF ~c.owner_signer THEN R("MissingRequiredSignature", acc)
  ELSE IF ~CanRead(acc, c.bridge, "Bridge") THEN R("BorshIoError", acc)
  ELSE IF is_initialized(acc[c.bridge]) THEN R("AccountAlreadyInitialized", acc)
  ELSE R("Ok", Write(acc, c.bridge, NewBridge(c.owner, acc[c.bridge].exempt)))

\* An InitializeBridge that does not look at the stored version.
InitBridgeAgain(acc, c) ==
  IF ~c.owner_signer THEN R("MissingRequiredSignature", acc)
  ELSE IF ~CanRead(acc, c.bridge, "Bridge") THEN R("BorshIoError", acc)
  ELSE IF ~acc[c.bridge].exempt THEN R("AccountNotRentExempt", acc)
  ELSE R("Ok", Write(acc, c.bridge, NewBridge(c.owner, acc[c.bridge].exempt)))

\* InitializeBridge: c = [bridge, owner, owner_signer]
process_init_bridge(acc, c) ==
  IF ~c.owner_signer THEN R("MissingRequiredSignature", acc)
  ELSE IF ~CanRead(acc, c.bridge, "Bridge") THEN R("BorshIoError", acc)
  ELSE IF is_initialized(acc[c.bridge]) THEN R("AccountAlreadyInitialized", acc)
  ELSE IF ~acc[c.bridge].exempt THEN R("AccountNotRentExempt", acc)
  ELSE R("Ok", Write(acc, c.bridge, NewBridge(c.owner, acc[c.bridge].exempt)))

\* An AddBlockchain that does not compare the Blockchain reference with the
\* address derived from the chain id.
AddBlockchainAtAnyAddress(acc, c) ==
  LET auth == validate_bridge_authority(c.bridge, c.authority)
      made == create_account_with_seed(acc, c.payer_signer, c.blockchain, ZeroBlockchain)
  IN IF auth # "Ok" THEN R(auth, acc)
     ELSE IF made.res # "Ok" THEN made
     ELSE R("Ok", Write(made.acc, c.blockchain,
                        NewBlockchain(c.bridge, c.blockchain_id, c.contract_address)))

\* AddBlockchain: c = [bridge, blockchain, payer, payer_signer, authority,
\*                     blockchain_id, contract_address]
process_add_blockchain(acc, c) ==
  LET auth == validate_bridge_authority(c.bridge, c.authority)
      seed == CheckSeed(c.blockchain_id, BlockchainSeed(c.blockchain_id),
                        c.authority, c.blockchain)
      made == create_account_with_seed(acc, c.payer_signer, c.blockchain, ZeroBlockchain)
  IN IF auth # "Ok" THEN R(auth, acc)
     ELSE IF seed # "Ok" THEN R(seed, acc)
     ELSE IF made.res # "Ok" THEN made
     ELSE R("Ok", Write(made.acc, c.blockchain,
                        NewBlockchain(c.bridge, c.blockchain_id, c.contract_address)))

\* An AddValidator that does not store the advanced validators counter.
AddValidatorUncounted(acc, c) ==
  IF ~CanRead(acc, c.blockchain, "Blockchain") THEN R("BorshIoError", acc)
  ELSE IF ~is_initialized(acc[c.blockchain]) THEN R("UninitializedAccount", acc)
  ELSE
    LET validator_index == acc[c.blockchain].validators
        auth == validate_bridge_authority(c.bridge, c.authority)
        seed == CheckSeed(c.blockchain_id, ValidatorSeed(c.blockchain_id, validator_index),
                          c.authority, c.validator)
        made == create_account_with_seed(acc, c.payer_signer, c.validator, ZeroValidator)
    IN IF auth # "Ok" THEN R(auth, acc)
       ELSE IF seed # "Ok" THEN R(seed, acc)
       ELSE IF made.res # "Ok" THEN made
       ELSE R("Ok", Write(made.acc, c.validator,
                          NewValidator(c.blockchain_id, validator_index, c.pub_key, c.payer)))

\* AddValidator: c = [bridge, blockchain, validator, payer, payer_signer,
\*                    authority, blockchain_id, pub_key]
process_add_validator(acc, c) ==
  IF ~CanRead(acc, c.blockchain, "Blockchain") THEN R("BorshIoError", acc)
  ELSE IF ~is_initialized(acc[c.blockchain]) THEN R("UninitializedAccount", acc)
  ELSE
    LET blockchain_account_data == acc[c.blockchain]
        validator_index == blockchain_account_data.validators
        auth == validate_bridge_authority(c.bridge, c.authority)
        seed == CheckSeed(c.blockchain_id, ValidatorSeed(c.blockchain_id, validator_index),
                          c.authority, c.validator)
        made == create_account_with_seed(acc, c.payer_signer, c.validator, ZeroValidator)
        acc1 == Write(made.acc, c.blockchain,
                      [blockchain_account_data EXCEPT !.validators = @ + 1])
    IN IF auth # "Ok" THEN R(auth, acc)
       ELSE IF seed # "Ok" THEN R(seed, acc)
       ELSE IF made.res # "Ok" THEN made
       ELSE R("Ok", Write(acc1, c.validator,
                          NewValidator(c.blockchain_id, validator_index, c.pub_key, c.payer)))

\* A get_or_create_user_data that hands back the record of an existing User
\* account with its version cleared.
GetOrCreateUserUnread(acc, payer_signer, blockchain_id, user_address, user_authority, user_info) ==
  LET auth == validate_user_address_authority(user_address, user_authority)
      seed == CheckSeed(blockchain_id, UserSeed(blockchain_id), user_authority, user_info)
      made == create_account_with_seed(acc, payer_signer, user_info, ZeroUser)
  IN IF auth # "Ok" THEN [res |-> auth, acc |-> acc, user |-> ZeroUser]
     ELSE IF seed # "Ok" THEN [res |-> seed, acc |-> acc, user |-> ZeroUser]
     ELSE IF data_is_empty(acc, user_info)
       THEN [res |-> made.res, acc |-> made.acc,
             user |-> NewUser(blockchain_id, user_address)]
     ELSE IF ~CanRead(acc, user_info, "User")
       THEN [res |-> "BorshIoError", acc |-> acc, user |-> ZeroUser]
     ELSE [res |-> "Ok", acc |-> acc, user |-> [acc[user_info] EXCEPT !.version = 0]]

\* get_or_create_user_data: [res, acc, user]
get_or_create_user_data(acc, payer_signer, blockchain_id, user_address, user_authority, user_info) ==
  LET auth == validate_user_address_authority(user_address, user_authority)
      seed == CheckSeed(blockchain_id, UserSeed(blockchain_id), user_authority, user_info)
      made == create_account_with_seed(acc, payer_signer, user_info, ZeroUser)
  IN IF auth # "Ok" THEN [res |-> auth, acc |-> acc, user |-> ZeroUser]
     ELSE IF seed # "Ok" THEN [res |-> seed, acc |-> acc, user |-> ZeroUser]
     ELSE IF data_is_empty(acc, user_info)
       THEN [res |-> made.res, acc |-> made.acc,
             user |-> NewUser(blockchain_id, user_address)]
     ELSE IF ~CanRead(acc, user_info, "User")
       THEN [res |-> "BorshIoError", acc |-> acc, user |-> ZeroUser]
     ELSE [res |-> "Ok", acc |-> acc, user |-> acc[user_info]]

create_sent_lock_account(acc, payer_signer, blockchain_id, sent_lock_info, user_authority, user_address, index, tx_id) ==
  LET auth == validate_user_address_authority(user_address, user_authority)
      seed == CheckSeed(blockchain_id, SentLockSeed(blockchain_id, index),
                        user_authority, sent_lock_info)
      made == create_account_with_seed(acc, payer_signer, sent_lock_info, ZeroSentLock)
  IN IF auth # "Ok" THEN R(auth, acc)
     ELSE IF seed # "Ok" THEN R(seed, acc)
     ELSE IF made.res # "Ok" THEN made
     ELSE R("Ok", Write(made.acc, sent_lock_info, NewSentLock(tx_id)))

create_received_lock_account(acc, payer_signer, blockchain_id, received_lock_info, user_authority, user_address, index, tx_id) ==
  LET auth == validate_user_address_authority(user_address, user_authority)
      seed == CheckSeed(blockchain_id, ReceivedLockSeed(blockchain_id, index),
                        user_authority, received_lock_info)
      made == create_account_with_seed(acc, payer_signer, received_lock_info,
                                       ZeroReceivedLock)
  IN IF auth # "Ok" THEN R(auth, acc)
     ELSE IF seed # "Ok" THEN R(seed, acc)
     ELSE IF made.res # "Ok" THEN made
     ELSE R("Ok", Write(made.acc, received_lock_info, NewReceivedLock(tx_id)))

\* The first-submission branch of process_add_signature (the Lock account is
\* empty), one operator per statement, each handing its result to the next:
\* [res, acc, lock], lock being the record Lock::new returns.
Failed(step) == [res |-> step.res, acc |-> step.acc, lock |-> ZeroLock]

\* A store of the User records that counts the sent leg twice.
StoreUsersCountsTwice(sender_user_data, recipient_user_data, rl, c, index) ==
  IF rl.res # "Ok" THEN Failed(rl)
  ELSE [res |-> "Ok",
        acc |-> Write(Write(rl.acc, c.sender_user,
                            [sender_user_data EXCEPT !.sent = @ + 2]),
                      c.recipient_user, [recipient_user_data EXCEPT !.received = @ + 1]),
        lock |-> NewLock(index, c.lock_id, c.tx_id, c.bridge, c.token_source_address,
                         c.token_source, c.source, c.sender, c.recipient, c.destination,
                         c.amount)]

\* serialize both User records (sender first), then Lock::new
StoreUsers(sender_user_data, recipient_user_data, rl, c, index) ==
  IF rl.res # "Ok" THEN Failed(rl)
  ELSE [res |-> "Ok",
        acc |-> Write(Write(rl.acc, c.sender_user,
                            [sender_user_data EXCEPT !.sent = @ + 1]),
                      c.recipient_user, [recipient_user_data EXCEPT !.received = @ + 1]),
        lock |-> NewLock(index, c.lock_id, c.tx_id, c.bridge, c.token_source_address,
                         c.token_source, c.source, c.sender, c.recipient, c.destination,
                         c.amount)]

ReceivedLeg(sender_user_data, recipient_user_data, sl, c, index) ==
  IF sl.res # "Ok" THEN Failed(sl)
  ELSE StoreUsers(sender_user_data, recipient_user_data,
                  create_received_lock_account(sl.acc, c.payer_signer, c.destination,
                                               c.received_lock, c.recipient_user_authority,
                                               c.recipient, recipient_user_data.received,
                                               c.tx_id),
                  c, index)

SentLeg(sender_user_data, ru, c, index) ==
  IF ru.res # "Ok" THEN Failed(ru)
  ELSE ReceivedLeg(sender_user_data, ru.user,
                   create_sent_lock_account(ru.acc, c.payer_signer, c.source, c.sent_lock,
                                            c.sender_user_authority, c.sender,
                                            sender_user_data.sent, c.tx_id),
                   c, index)

RecipientUser(su, c, index) ==
  IF su.res # "Ok" THEN Failed(su)
  ELSE SentLeg(su.user,
               get_or_create_user_data(su.acc, c.payer_signer, c.destination, c.recipient,
                                       c.recipient_user_authority, c.recipient_user),
               c, index)

\* index = blockchain_account_data.locks; locks += 1; serialize
CountLock(made, c, blockchain_account_data) ==
  IF made.res # "Ok" THEN Failed(made)
  ELSE RecipientUser(
         get_or_create_user_data(
           Write(made.acc, c.blockchain, [blockchain_account_data EXCEPT !.locks = @ + 1]),
           c.payer_signer, c.source, c.sender, c.sender_user_authority, c.sender_user),
         c, blockchain_account_data.locks)

FirstSubmission(acc, c, blockchain_account_data) ==
  CountLock(create_account_with_seed(acc, c.payer_signer, c.lock, ZeroLock), c,
            blockchain_account_data)

\* A repeat branch that counts the Lock on the Blockchain record once more.
RepeatRecountsLock(acc, c) ==
  IF ~CanRead(acc, c.lock, "Lock")
    THEN [res |-> "BorshIoError", acc |-> acc, lock |-> ZeroLock]
    ELSE [res |-> "Ok",
          acc |-> Write(acc, c.blockchain, [acc[c.blockchain] EXCEPT !.locks = @ + 1]),
          lock |-> acc[c.lock]]

\* A repeat branch that rebuilds the Lock from the call's arguments, keeping
\* the stored index and signature count.
RepeatRebuildsLock(acc, c) ==
  IF ~CanRead(acc, c.lock, "Lock")
    THEN [res |-> "BorshIoError", acc |-> acc, lock |-> ZeroLock]
    ELSE [res |-> "Ok", acc |-> acc,
          lock |-> [NewLock(acc[c.lock].index, c.lock_id, c.tx_id, c.bridge,
                            c.token_source_address, c.token_source, c.source, c.sender,
                            c.recipient, c.destination, c.amount)
                      EXCEPT !.signatures = acc[c.lock].signatures]]

\* The repeat-submission branch: the stored Lock is loaded as it is.
RepeatSubmission(acc, c) ==
  IF ~CanRead(acc, c.lock, "Lock")
    THEN [res |-> "BorshIoError", acc |-> acc, lock |-> ZeroLock]
    ELSE [res |-> "Ok", acc |-> acc, lock |-> acc[c.lock]]

\* The index of the Signature slot an AddSignature call fills.
SignatureSlot(lock_account_data) == lock_account_data.signatures

\* Signature::new, serialize; signatures += 1, serialize the Lock
StoreSignature(made, c, lock_account_data) ==
  IF made.res # "Ok" THEN made
  ELSE R("Ok", Write(Write(made.acc, c.signature_account,
                           NewSignature(lock_account_data.signatures, c.bridge,
                                        c.signature, c.validator)),
                     c.lock, [lock_account_data EXCEPT !.signatures = @ + 1]))

\* The tail of process_add_signature: derive the Signature address, allocate
\* and write the Signature, count it on the Lock.
RecordSignature(acc, c, lock_account_data) ==
  Try(CheckSeed(c.source, SignatureSeed(c.source, c.lock_id, SignatureSlot(lock_account_data)),
                c.authority, c.signature_account),
      acc,
      StoreSignature(create_account_with_seed(acc, c.payer_signer, c.signature_account,
                                              ZeroSignature),
                     c, lock_account_data))

SignLock(got, c) ==
  IF got.res # "Ok" THEN R(got.res, got.acc)
  ELSE IF ~is_initialized(got.lock) THEN R("UninitializedAccount", got.acc)
  ELSE RecordSignature(got.acc, c, got.lock)

\* A gate that checks the validator's chain and not its owner.
CheckValidatorChainOnly(validator_account_data, payer, source) ==
  IF validator_account_data.blockchain_id # source THEN "InvalidArgument" ELSE "Ok"

\* The validator must be the payer's and registered for the source chain.
CheckValidator(validator_account_data, payer, source) ==
  IF validator_account_data.owner # payer THEN "InvalidArgument"
  ELSE IF validator_account_data.blockchain_id # source THEN "InvalidArgument"
  ELSE "Ok"

\* AddSignature: c = [bridge, blockchain, validator, lock, signature_account,
\*   authority, sender_user, sender_user_authority, recipient_user,
\*   recipient_user_authority, sent_lock, received_lock, payer, payer_signer,
\*   signature, token_source, token_source_address, source, tx_id, lock_id,
\*   destination, sender, recipient, amount]
process_add_signature(acc, c) ==
  IF ~c.payer_signer THEN R("MissingRequiredSignature", acc)
  ELSE IF ~CanRead(acc, c.bridge, "Bridge") THEN R("BorshIoError", acc)
  ELSE IF ~is_initialized(acc[c.bridge]) THEN R("UninitializedAccount", acc)
  ELSE IF ~CanRead(acc, c.blockchain, "Blockchain") THEN R("BorshIoError", acc)
  ELSE IF ~is_initialized(acc[c.blockchain]) THEN R("UninitializedAccount", acc)
  ELSE IF ~CanRead(acc, c.validator, "Validator") THEN R("BorshIoError", acc)
  ELSE IF ~is_initialized(acc[c.validator]) THEN R("UninitializedAccount", acc)
  ELSE Try(CheckValidator(acc[c.validator], c.payer, c.source), acc,
       Try(validate_bridge_authority(c.bridge, c.authority), acc,
       Try(CheckSeed(c.source, LockSeed(c.source, c.tx_id), c.authority, c.lock), acc,
           SignLock(IF data_is_empty(acc, c.lock)
                      THEN FirstSubmission(acc, c, acc[c.blockchain])
                      ELSE RepeatSubmission(acc, c),
                    c))))

\* process_instruction: dispatch on the instruction tag.
process_instruction(acc, c) ==
  CASE c.op = "InitializeBridge" -> process_init_bridge(acc, c)
    [] c.op = "AddBlockchain" -> process_add_blockchain(acc, c)
    [] c.op = "AddValidator" -> process_add_validator(acc, c)
    [] c.op = "AddSignature" -> process_add_signature(acc, c)

\* ------------------------------------------------------------------- inputs
Callers == {"Alice", "Bob"}
BridgeKeys == {"B1"}
ChainIds == {ETH, BSC, NulETH}
ContractAddress == "C1"
PubKey == "K2"
TokenAddress == "T3"
SignatureBytes == 7

\* The transfers the validators report. Report1 is the transfer itself;
\* the others differ from it as their names say.
Report1 ==
  [token_source |-> ETH, token_source_address |-> TokenAddress, source |-> ETH,
   tx_id |-> TxA, lock_id |-> 1, destination |-> BSC, sender |-> "U2",
   recipient |-> "U4", amount |-> 10000]
ReportOtherAmount == [Report1 EXCEPT !.amount = 9999]
ReportCollidingTx == [Report1 EXCEPT !.tx_id = TxA2, !.lock_id = 2]
ReportSelf ==
  [Report1 EXCEPT !.tx_id = TxB, !.lock_id = 3, !.destination = ETH, !.recipient = "U2"]
ReportFromBSC ==
  [Report1 EXCEPT !.source = BSC, !.destination = ETH, !.sender = "U4",
                  !.recipient = "U2"]
Reports == {Report1, ReportOtherAmount, ReportCollidingTx, ReportSelf, ReportFromBSC}

BridgeAuthority(bridge) == FindProgramAddress(bridge)
BlockchainAddress(bridge, chain) ==
  CreateWithSeed(BridgeAuthority(bridge), BlockchainSeed(chain))
ValidatorAddress(bridge, chain, index) ==
  CreateWithSeed(BridgeAuthority(bridge), ValidatorSeed(chain, index))
LockAddress(bridge, source, tx_id) ==
  CreateWithSeed(BridgeAuthority(bridge), LockSeed(source, tx_id))
SignatureAddress(bridge, source, lock_id, index) ==
  CreateWithSeed(BridgeAuthority(bridge), SignatureSeed(source, lock_id, index))
UserAddress(chain, address) ==
  CreateWithSeed(FindProgramAddress(address), UserSeed(chain))
SentLockAddress(chain, address, index) ==
  CreateWithSeed(FindProgramAddress(address), SentLockSeed(chain, index))
ReceivedLockAddress(chain, address, index) ==
  CreateWithSeed(FindProgramAddress(address), ReceivedLockSeed(chain, index))

\* An authority that is not the one derived from the bridge.
OtherAuthority == FindProgramAddress("U2")

\* The client's calls, built as BridgeContext builds them.
InitBridgeCall(bridge, owner, owner_signer) ==
  [op |-> "InitializeBridge", bridge |-> bridge, owner |-> owner,
   owner_signer |-> owner_signer]

AddBlockchainCall(bridge, blockchain, payer, payer_signer, authority, blockchain_id) ==
  [op |-> "AddBlockchain", bridge |-> bridge, blockchain |-> blockchain, payer |-> payer,
   payer_signer |-> payer_signer, authority |-> authority,
   blockchain_id |-> blockchain_id, contract_address |-> ContractAddress]

AddValidatorCall(bridge, blockchain, validator, payer, payer_signer, authority, blockchain_id) ==
  [op |-> "AddValidator", bridge |-> bridge, blockchain |-> blockchain,
   validator |-> validator, payer |-> payer, payer_signer |-> payer_signer,
   authority |-> authority, blockchain_id |-> blockchain_id, pub_key |-> PubKey]

\* BridgeContext::add_signature: every address is derived from the reported
\* transfer and from the counters the client reads in the current accounts.
AddSignatureCall(acc, bridge, blockchain, validator, payer, t) ==
  LET lock == LockAddress(bridge, t.source, t.tx_id)
      signature_index == IF CanRead(acc, lock, "Lock") THEN acc[lock].signatures ELSE 0
      sender_user == UserAddress(t.source, t.sender)
      recipient_user == UserAddress(t.destination, t.recipient)
      sent_index == IF CanRead(acc, sender_user, "User") THEN acc[sender_user].sent ELSE 0
      received_index ==
        IF CanRead(acc, recipient_user, "User") THEN acc[recipient_user].received ELSE 0
  IN [op |-> "AddSignature", bridge |-> bridge, blockchain |-> blockchain,
      validator |-> validator, lock |-> lock,
      signature_account |-> SignatureAddress(bridge, t.source, t.lock_id, signature_index),
      authority |-> BridgeAuthority(bridge),
      sender_user |-> sender_user,
      sender_user_authority |-> FindProgramAddress(t.sender),
      recipient_user |-> recipient_user,
      recipient_user_authority |-> FindProgramAddress(t.recipient),
      sent_lock |-> SentLockAddress(t.source, t.sender, sent_index),
      received_lock |-> ReceivedLockAddress(t.destination, t.recipient, received_index),
      payer |-> payer, payer_signer |-> TRUE, signature |-> SignatureBytes,
      token_source |-> t.token_source, token_source_address |-> t.token_source_address,
      source |-> t.source, tx_id |-> t.tx_id, lock_id |-> t.lock_id,
      destination |-> t.destination, sender |-> t.sender, recipient |-> t.recipient,
      amount |-> t.amount]

\* The AddSignature instruction data carries revert: bool (instruction.rs);
\* process_instruction binds every field of the instruction but this one.
WithRevert(c, revert) == [revert |-> revert] @@ c

\* A built call with one reference or the signer flag replaced.
DeviationKinds ==
  {"Unsigned", "Authority", "SenderAuthority", "RecipientAuthority", "SenderUser",
   "RecipientUser", "OtherLock", "NextSignature", "NextSentLock", "NextReceivedLock"}

Deviate(acc, c, kind) ==
  CASE kind = "None" -> c
    [] kind = "Unsigned" -> [c EXCEPT !.payer_signer = FALSE]
    [] kind = "Authority" -> [c EXCEPT !.authority = OtherAuthority]
    [] kind = "SenderAuthority" ->
         [c EXCEPT !.sender_user_authority = FindProgramAddress("U9")]
    [] kind = "RecipientAuthority" ->
         [c EXCEPT !.recipient_user_authority = FindProgramAddress("U9")]
    [] kind = "SenderUser" -> [c EXCEPT !.sender_user = UserAddress(c.source, "U9")]
    [] kind = "RecipientUser" ->
         [c EXCEPT !.recipient_user = UserAddress(c.destination, "U9")]
    [] kind = "OtherLock" -> [c EXCEPT !.lock = LockAddress(c.bridge, c.source, ZeroTx)]
    [] kind = "OtherBlockchain" ->
         [c EXCEPT !.blockchain = BlockchainAddress(c.bridge, c.destination)]
    [] kind = "NextSignature" ->
         [c EXCEPT !.signature_account =
            SignatureAddress(c.bridge, c.source, c.lock_id,
                             IF CanRead(acc, c.lock, "Lock")
                               THEN acc[c.lock].signatures + 1 ELSE 1)]
    [] kind = "NextSentLock" ->
         [c EXCEPT !.sent_lock =
            SentLockAddress(c.source, c.sender,
                            IF CanRead(acc, c.sender_user, "User")
                              THEN acc[c.sender_user].sent + 1 ELSE 1)]
    [] kind = "NextReceivedLock" ->
         [c EXCEPT !.received_lock =
            ReceivedLockAddress(c.destination, c.recipient,
                                IF CanRead(acc, c.recipient_user, "User")
                                  THEN acc[c.recipient_user].received + 1 ELSE 1)]

\* The caps on the counters: a call that would create a Validator, Lock or
\* Signature record is submitted only while fewer than the bound exist.
Count(acc, t) == Cardinality({a \in DOMAIN acc : acc[a].t = t})

WithinBounds(acc, c) ==
  CASE c.op = "AddValidator" -> Count(acc, "Validator") < MaxValidators
    [] c.op = "AddSignature" ->
         /\ Count(acc, "Signature") < MaxSignatures
         /\ data_is_empty(acc, c.lock) => Count(acc, "Lock") < MaxLocks
    [] OTHER -> TRUE

\* ------------------------------------------------------------------ actions
Init ==
  /\ accounts = <<>>
  /\ last = [op |-> "None", res |-> "Ok"]

\* A runtime that keeps the writes of a handler that returned an error.
CommitWrites(r, c) ==
  /\ accounts' = r.acc
  /\ last' = [op |-> c.op, res |-> r.res]

\* The runtime runs one instruction as one transaction: the handler's writes
\* are kept when it returns Ok and dropped when it returns an error.
Commit(r, c) ==
  /\ accounts' = IF r.res = "Ok" THEN r.acc ELSE accounts
  /\ last' = [op |-> c.op, res |-> r.res]

Submit(c) == Commit(process_instruction(accounts, c), c)

\* The client allocates the Bridge account (system create_account, owner = the
\* program), funded for rent exemption or not.
CreateBridgeAccount(exempts) ==
  \E b \in BridgeKeys, exempt \in exempts :
    /\ data_is_empty(accounts, b)
    /\ accounts' = Write(accounts, b, ZeroBridge(exempt))
    /\ last' = [op |-> "CreateAccount", res |-> "Ok"]

InitializeBridge(calls) == \E c \in calls : Submit(c)

AddBlockchain(calls) == \E c \in calls : Submit(c)

AddValidator(calls) == \E c \in calls : WithinBounds(accounts, c) /\ Submit(c)

\* ------------------------------------------------- the registration scenario
\* Bridge, chain and validator registration with every combination of chain
\* id argument, Blockchain reference, Validator address, payer and authority.
RegisteredChains == {ETH, BSC}

RegInitCalls ==
  {InitBridgeCall(b, o, s) : b \in BridgeKeys, o \in Callers, s \in BOOLEAN}

\* A chain id, the address of a registered chain's record and a payer; and the
\* same with the payer's signature missing or another authority supplied.
RegBlockchainCalls ==
  UNION {{AddBlockchainCall(b, BlockchainAddress(b, a), p, TRUE, BridgeAuthority(b), id) :
            p \in Callers}
         \cup {AddBlockchainCall(b, BlockchainAddress(b, a), "Bob", FALSE,
                                 BridgeAuthority(b), id),
               AddBlockchainCall(b, BlockchainAddress(b, a), "Bob", TRUE, OtherAuthority, id)}
         : b \in BridgeKeys, a \in RegisteredChains, id \in ChainIds}

\* The Validator address a client derives from the chain id it passes and the
\* validators counter of the Blockchain record it supplies (tests.rs
\* add_validator), or the one after it.
NextValidatorIndex(acc, blockchain) ==
  IF CanRead(acc, blockchain, "Blockchain") THEN acc[blockchain].validators ELSE 0

RegValidatorCalls(acc) ==
  UNION {LET bc == BlockchainAddress(b, a)
             k == NextValidatorIndex(acc, bc)
         IN {AddValidatorCall(b, bc, ValidatorAddress(b, id, j), p, TRUE,
                              BridgeAuthority(b), id) : p \in Callers, j \in {k, k + 1}}
            \cup {AddValidatorCall(b, bc, ValidatorAddress(b, id, k), "Bob", FALSE,
                                   BridgeAuthority(b), id),
                  AddValidatorCall(b, bc, ValidatorAddress(b, id, k), "Bob", TRUE,
                                   OtherAuthority, id)}
         : b \in BridgeKeys, a \in RegisteredChains, id \in ChainIds}

NextReg ==
  \/ CreateBridgeAccount(BOOLEAN)
  \/ InitializeBridge(RegInitCalls)
  \/ AddBlockchain(RegBlockchainCalls)
  \/ AddValidator(RegValidatorCalls(accounts))

SpecReg == Init /\ [][NextReg]_vars

\* ---------------------------------------------------- the signature scenario
\* One bridge owned by Alice, the source chain ETH and its validators
\* registered by Alice; Alice and Bob report transfers through any registered
\* validator.
SigInitCalls == {InitBridgeCall(b, "Alice", TRUE) : b \in BridgeKeys}

SigBlockchainCalls ==
  {AddBlockchainCall(b, BlockchainAddress(b, ETH), "Alice", TRUE, BridgeAuthority(b), ETH) :
     b \in BridgeKeys}

SigValidatorCalls(acc) ==
  {AddValidatorCall(b, BlockchainAddress(b, ETH),
                    ValidatorAddress(b, ETH, NextValidatorIndex(acc, BlockchainAddress(b, ETH))),
                    "Alice", TRUE, BridgeAuthority(b), ETH) : b \in BridgeKeys}

\* The validators a reporter can name: the registered ones, and index 0
\* whether registered or not.
ValidatorIndices(acc) ==
  {0} \cup {k \in 1..MaxValidators :
              \E b \in BridgeKeys : ~data_is_empty(acc, ValidatorAddress(b, ETH, k))}

\* The call a client builds for report t through validator k of ETH.
SignatureCall(acc, b, k, p, t) ==
  AddSignatureCall(acc, b, BlockchainAddress(b, ETH), ValidatorAddress(b, ETH, k), p, t)

\* Every report through every validator by every caller, and the deviations
\* of Alice's call for Report1 through validator 0.
SigDeviations(k, p, t) ==
  IF k = 0 /\ p = "Alice" /\ t = Report1 THEN {"None"} \cup DeviationKinds ELSE {"None"}

SigAddSignature ==
  \E k \in ValidatorIndices(accounts) :
    \E b \in BridgeKeys, t \in Reports, p \in Callers :
      \E kind \in SigDeviations(k, p, t) :
        LET c == Deviate(accounts, SignatureCall(accounts, b, k, p, t), kind)
        IN WithinBounds(accounts, c) /\ Submit(c)

Next ==
  \/ CreateBridgeAccount({TRUE})
  \/ InitializeBridge(SigInitCalls)
  \/ AddBlockchain(SigBlockchainCalls)
  \/ AddValidator(SigValidatorCalls(accounts))
  \/ SigAddSignature

Spec == Init /\ [][Next]_vars

\* ---------------------------------------------------- the two-chain scenario
\* One bridge owned by Alice with the chains ETH and BSC registered and one
\* validator of ETH more than the signature scenario has; Alice reports the
\* transfer Report1 through any registered validator, supplying the Blockchain
\* record of the source chain or the one of the destination chain.
CrossBlockchainCalls ==
  {AddBlockchainCall(b, BlockchainAddress(b, id), "Alice", TRUE, BridgeAuthority(b), id) :
     b \in BridgeKeys, id \in RegisteredChains}

CrossValidatorIndices(acc) ==
  {k \in 0..MaxValidators :
     \E b \in BridgeKeys : ~data_is_empty(acc, ValidatorAddress(b, ETH, k))}

CrossReports == {Report1, ReportSelf}

CrossAddValidator ==
  \E c \in SigValidatorCalls(accounts) :
    Count(accounts, "Validator") < MaxValidators + 1 /\ Submit(c)

CrossAddSignature ==
  \E k \in CrossValidatorIndices(accounts) :
    \E b \in BridgeKeys, t \in CrossReports, kind \in {"None", "OtherBlockchain"} :
      LET c == Deviate(accounts, SignatureCall(accounts, b, k, "Alice", t), kind)
      IN WithinBounds(accounts, c) /\ Submit(c)

NextCross ==
  \/ CreateBridgeAccount({TRUE})
  \/ InitializeBridge(SigInitCalls)
  \/ AddBlockchain(CrossBlockchainCalls)
  \/ CrossAddValidator
  \/ CrossAddSignature

SpecCross == Init /\ [][NextCross]_vars

\* ----------------------------------------------------------- the codec scenario
\* A client encodes a chain-id text (instruction.rs builds every instruction
\* with str_to_chain_id) and the program decodes the id for its seeds. The
\* texts are the byte strings over NUL, "E" and "T" of up to MaxTextLen bytes;
\* last records the call, its input and its result.
TextBytes == {0, 69, 84}

RECURSIVE TextsOfLen(_)
TextsOfLen(n) ==
  IF n = 0 THEN {<<>>}
  ELSE {Append(s, b) : s \in TextsOfLen(n - 1), b \in TextBytes}

Texts == UNION {TextsOfLen(n) : n \in 0..MaxTextLen}

EncodeText ==
  \E text \in Texts :
    /\ last' = [op |-> "Encode", res |-> str_to_chain_id(text).res, text |-> text,
                id |-> str_to_chain_id(text).id]
    /\ UNCHANGED accounts

DecodeId ==
  /\ last.op = "Encode"
  /\ last.res = "Ok"
  /\ last' = [op |-> "Decode", res |-> DecodeChainId(last.id).res, text |-> last.text,
              id |-> last.id, out |-> DecodeChainId(last.id).text]
  /\ UNCHANGED accounts

NextCodec == EncodeText \/ DecodeId

SpecCodec == Init /\ [][NextCodec]_vars

\* ------------------------------------------------------ the lock-id scenario
\* The signature scenario with Alice reporting three transfers from ETH: one,
\* another transaction that names the lock id of the first, and a transaction
\* whose id shares the first's address prefix under another lock id.
ReportReusedLockId == [Report1 EXCEPT !.tx_id = TxB]

LockIdReports == {Report1, ReportReusedLockId, ReportCollidingTx}

LockIdAddSignature ==
  \E k \in ValidatorIndices(accounts) :
    \E b \in BridgeKeys, t \in LockIdReports :
      LET c == SignatureCall(accounts, b, k, "Alice", t)
      IN WithinBounds(accounts, c) /\ Submit(c)

NextLockId ==
  \/ CreateBridgeAccount({TRUE})
  \/ InitializeBridge(SigInitCalls)
  \/ AddBlockchain(SigBlockchainCalls)
  \/ AddValidator(SigValidatorCalls(accounts))
  \/ LockIdAddSignature

SpecLockId == Init /\ [][NextLockId]_vars

\* --------------------------------------------------- the two-bridge scenario
\* Two bridges under the one program, both owned by Alice; ETH is registered
\* under each; a validator is registered under either bridge with the
\* Blockchain record of either; Alice reports Report1 to either bridge.
IsoBridges == {"B1", "B2"}

IsoCreateBridgeAccount ==
  \E b \in IsoBridges :
    /\ data_is_empty(accounts, b)
    /\ accounts' = Write(accounts, b, ZeroBridge(TRUE))
    /\ last' = [op |-> "CreateAccount", res |-> "Ok"]

IsoInitCalls == {InitBridgeCall(b, "Alice", TRUE) : b \in IsoBridges}

IsoBlockchainCalls ==
  {AddBlockchainCall(b, BlockchainAddress(b, ETH), "Alice", TRUE, BridgeAuthority(b), ETH) :
     b \in IsoBridges}

\* AddValidator invoked with bridge b and the Blockchain record of bridge a.
IsoValidatorCalls(acc) ==
  {AddValidatorCall(b, BlockchainAddress(a, ETH),
                    ValidatorAddress(b, ETH, NextValidatorIndex(acc, BlockchainAddress(a, ETH))),
                    "Alice", TRUE, BridgeAuthority(b), ETH) : a \in IsoBridges, b \in IsoBridges}

IsoSignatureCalls(acc) ==
  {SignatureCall(acc, b, k, "Alice", Report1) : b \in IsoBridges, k \in 0..1}

\* The calls invoked with bridge b's account and derived authority.
IsoCalls(acc, b) ==
  {c \in IsoInitCalls \cup IsoBlockchainCalls \cup IsoValidatorCalls(acc)
           \cup IsoSignatureCalls(acc) : c.bridge = b}

IsoAddSignature ==
  \E c \in IsoSignatureCalls(accounts) : WithinBounds(accounts, c) /\ Submit(c)

NextIso ==
  \/ IsoCreateBridgeAccount
  \/ InitializeBridge(IsoInitCalls)
  \/ AddBlockchain(IsoBlockchainCalls)
  \/ AddValidator(IsoValidatorCalls(accounts))
  \/ IsoAddSignature

SpecIso == Init /\ [][NextIso]_vars

\* ------------------------------------------------------------------- claims
\* The Signature records counted on a Lock: the slots below its counter.
SignatureSlots(acc, lock) ==
  {SignatureAddress(lock.bridge, lock.source, lock.lock_id, i) : i \in 0..(lock.signatures - 1)}

\* Validator c.validator already holds a Signature for (c.source, c.lock_id).
AlreadySigned(acc, c) ==
  \E i \in 0..MaxSignatures :
    LET a == SignatureAddress(c.bridge, c.source, c.lock_id, i)
    IN CanRead(acc, a, "Signature") /\ acc[a].validator = c.validator

Locks(acc) == {a \in DOMAIN acc : acc[a].t = "Lock"}

\* C1: no double-signing. A validator that holds a Signature for a
\* (source chain, lock id) cannot commit another AddSignature for it, and the
\* Signature records counted on a Lock name pairwise different validators.
C1_NoDoubleSigning ==
  /\ \A k \in ValidatorIndices(accounts) :
       \A b \in BridgeKeys, t \in Reports, p \in Callers :
         LET c == SignatureCall(accounts, b, k, p, t)
         IN AlreadySigned(accounts, c) => process_instruction(accounts, c).res # "Ok"
  /\ \A l \in Locks(accounts) :
       \A x, y \in SignatureSlots(accounts, accounts[l]) :
         (x # y /\ CanRead(accounts, x, "Signature") /\ CanRead(accounts, y, "Signature"))
           => accounts[x].validator # accounts[y].validator

\* A call claims a transfer field other than the one the stored Lock holds.
FieldsDiffer(lock, c) ==
  \/ lock.lock_id # c.lock_id
  \/ lock.token_source # c.token_source
  \/ lock.token_source_address # c.token_source_address
  \/ lock.sender # c.sender
  \/ lock.recipient # c.recipient
  \/ lock.destination # c.destination
  \/ lock.amount # c.amount

\* C2: tamper rejection. An AddSignature for the (source chain, tx id) of a
\* stored Lock that claims a different lock id, token source, token address,
\* sender, recipient, destination or amount returns InvalidArgument, whoever
\* submits it (so nothing changes).
C2_TamperRejected ==
  \A k \in ValidatorIndices(accounts) :
    \A b \in BridgeKeys, t \in Reports, p \in Callers :
      LET c == SignatureCall(accounts, b, k, p, t)
      IN (/\ CanRead(accounts, c.lock, "Lock")
          /\ accounts[c.lock].source = c.source
          /\ accounts[c.lock].tx_id = c.tx_id
          /\ FieldsDiffer(accounts[c.lock], c))
           => process_instruction(accounts, c).res = "InvalidArgument"

\* Validator k of ETH is registered for the chain and owned by p.
ValidatorOf(acc, b, k, p, chain) ==
  LET v == ValidatorAddress(b, ETH, k)
  IN /\ CanRead(acc, v, "Validator")
     /\ is_initialized(acc[v])
     /\ acc[v].owner = p
     /\ acc[v].blockchain_id = chain

\* The bridge is initialized and the source chain of report t is registered.
ReadyFor(acc, b, t) ==
  /\ CanRead(acc, b, "Bridge") /\ is_initialized(acc[b])
  /\ CanRead(acc, BlockchainAddress(b, t.source), "Blockchain")
  /\ is_initialized(acc[BlockchainAddress(b, t.source)])

\* No Lock has been recorded for the (source chain, tx id) of report t.
Unreported(acc, t) ==
  \A l \in Locks(acc) : ~(acc[l].source = t.source /\ acc[l].tx_id = t.tx_id)

\* Two validators report t one after the other, each call built from the
\* accounts as the client reads them: both commit on the same Lock, counted
\* 1 and then 2, the second creating no Lock and keeping the index.
SignedByBoth(acc, b, k1, k2, p, t) ==
  LET c1 == SignatureCall(acc, b, k1, p, t)
      r1 == process_instruction(acc, c1)
      c2 == SignatureCall(r1.acc, b, k2, p, t)
      r2 == process_instruction(r1.acc, c2)
  IN /\ r1.res = "Ok"
     /\ r1.acc[c1.lock].signatures = 1
     /\ r2.res = "Ok"
     /\ c2.lock = c1.lock
     /\ r2.acc[c2.lock].signatures = 2
     /\ r2.acc[c2.lock].index = r1.acc[c1.lock].index
     /\ Locks(r2.acc) = Locks(r1.acc)

\* C3: idempotent Lock identity. For every transfer not yet reported, two
\* different registered validators reporting it with identical fields both
\* succeed on one Lock, whose signatures counter reads 1 after the first call
\* and 2 after the second.
C3_IdempotentLockIdentity ==
  \A k1, k2 \in ValidatorIndices(accounts) :
    \A b \in BridgeKeys, t \in Reports, p \in Callers :
      (/\ k1 # k2
       /\ ReadyFor(accounts, b, t)
       /\ ValidatorOf(accounts, b, k1, p, t.source)
       /\ ValidatorOf(accounts, b, k2, p, t.source)
       /\ Unreported(accounts, t))
        => SignedByBoth(accounts, b, k1, k2, p, t)

\* C4: Lock identity is (source chain, tx id). The Lock a committed
\* AddSignature signs is the Lock of its own tx id, and no Lock recorded for
\* another tx id is changed by it.
C4_LockIdentity ==
  \A k \in ValidatorIndices(accounts) :
    \A b \in BridgeKeys, t \in Reports, p \in Callers :
      LET c == SignatureCall(accounts, b, k, p, t)
          r == process_instruction(accounts, c)
      IN r.res = "Ok"
           => /\ r.acc[c.lock].tx_id = c.tx_id
              /\ \A l \in Locks(accounts) :
                   accounts[l].tx_id # c.tx_id => r.acc[l] = accounts[l]

\* Starting from counter value i, each of the next n committed AddValidator
\* calls for the chain lands at the address derived from the counter it read.
RECURSIVE RegistersInOrder(_, _, _, _, _)
RegistersInOrder(acc, b, chain, i, n) ==
  \/ n = 0
  \/ \A p \in Callers, j \in {i, i + 1} :
       LET c == AddValidatorCall(b, BlockchainAddress(b, chain),
                                 ValidatorAddress(b, chain, j), p, TRUE,
                                 BridgeAuthority(b), chain)
           r == process_instruction(acc, c)
       IN r.res = "Ok"
            => /\ c.validator = ValidatorAddress(b, chain, i)
               /\ data_is_empty(acc, c.validator)
               /\ CanRead(r.acc, c.validator, "Validator")
               /\ r.acc[c.validator].index = i
               /\ r.acc[c.blockchain].validators = i + 1
               /\ RegistersInOrder(r.acc, b, chain, i + 1, n - 1)

\* C5: counter/address coupling. From a chain's registration on, the i-th
\* AddValidator committed for the chain (chain id argument and Blockchain
\* record both the chain's) creates its Validator at the address derived from
\* (chain, i) with stored index i, and leaves Blockchain.validators = i + 1;
\* so after n of them the counter reads n.
C5_CounterAddressCoupling ==
  \A b \in BridgeKeys, chain \in RegisteredChains :
    LET bc == BlockchainAddress(b, chain)
    IN (CanRead(accounts, bc, "Blockchain") /\ accounts[bc].validators = 0)
         => RegistersInOrder(accounts, b, chain, 0, MaxValidators)

\* MaxValidators registrations for ETH have been committed in a row.
C5_Witness ==
  /\ last = [op |-> "AddValidator", res |-> "Ok"]
  /\ \E b \in BridgeKeys :
       /\ CanRead(accounts, BlockchainAddress(b, ETH), "Blockchain")
       /\ accounts[BlockchainAddress(b, ETH)].validators = MaxValidators
       /\ \A i \in 0..(MaxValidators - 1) :
            /\ CanRead(accounts, ValidatorAddress(b, ETH, i), "Validator")
            /\ accounts[ValidatorAddress(b, ETH, i)].index = i
            /\ accounts[ValidatorAddress(b, ETH, i)].blockchain_id = ETH

\* C6: no partial validator state. For every registered chain and every
\* index i, a Validator record exists at the address derived from (chain, i)
\* exactly when i is below the chain's validators counter, and it stores that
\* chain id (compared as the text the addresses are derived from) and that
\* index.
C6_NoPartialValidatorState ==
  \A b \in BridgeKeys, chain \in RegisteredChains :
    LET bc == BlockchainAddress(b, chain)
    IN (CanRead(accounts, bc, "Blockchain") /\ is_initialized(accounts[bc]))
         => \A i \in 0..(MaxValidators + 1) :
              LET v == ValidatorAddress(b, chain, i)
              IN /\ ~data_is_empty(accounts, v) <=> i < accounts[bc].validators
                 /\ ~data_is_empty(accounts, v)
                      => /\ CanRead(accounts, v, "Validator")
                         /\ chain_id_to_str(accounts[v].blockchain_id) = chain_id_to_str(chain)
                         /\ accounts[v].index = i

\* The call is signed by the owner stored in the initialized Bridge record.
SignedByOwner(acc, c) ==
  /\ CanRead(acc, c.bridge, "Bridge")
  /\ is_initialized(acc[c.bridge])
  /\ c.payer_signer
  /\ acc[c.bridge].owner = c.payer

\* C7: the bridge owner signs the administrative instructions. An
\* AddBlockchain or AddValidator commits only when the Bridge record is
\* initialized and the call is signed by Bridge.owner.
C7_OwnerSignsAdministration ==
  \A c \in RegBlockchainCalls \cup RegValidatorCalls(accounts) :
    process_instruction(accounts, c).res = "Ok" => SignedByOwner(accounts, c)

\* The deviations of a report's call the gate is checked against.
GateKinds(k, p, t) == {"Unsigned"} \cup SigDeviations(k, p, t)

\* Bridge, Blockchain and Validator records of the call are initialized.
RecordsReady(acc, c) ==
  /\ CanRead(acc, c.bridge, "Bridge") /\ is_initialized(acc[c.bridge])
  /\ CanRead(acc, c.blockchain, "Blockchain") /\ is_initialized(acc[c.blockchain])
  /\ CanRead(acc, c.validator, "Validator") /\ is_initialized(acc[c.validator])

GateHolds(acc, c) ==
  LET r == process_instruction(acc, c)
  IN /\ r.res = "Ok"
          => /\ c.payer_signer
             /\ RecordsReady(acc, c)
             /\ acc[c.validator].blockchain_id = c.source
             /\ acc[c.validator].owner = c.payer
     /\ ~c.payer_signer => r.res = "MissingRequiredSignature"
     /\ (/\ c.payer_signer
         /\ RecordsReady(acc, c)
         /\ \/ acc[c.validator].owner # c.payer
            \/ acc[c.validator].blockchain_id # c.source)
          => r.res = "InvalidArgument"

\* C8: the AddSignature authorization gate. AddSignature commits only if the
\* payer signed and the Validator record is initialized, registered for the
\* source chain and owned by the payer; an unsigned call returns
\* MissingRequiredSignature; a signed call through an initialized Validator of
\* another chain or another owner returns InvalidArgument; and a rejected
\* AddSignature leaves every record as it was.
C8_AuthorizationGate ==
  /\ [](\A k \in ValidatorIndices(accounts) :
          \A b \in BridgeKeys, t \in Reports, p \in Callers :
            \A kind \in GateKinds(k, p, t) :
              GateHolds(accounts, Deviate(accounts, SignatureCall(accounts, b, k, p, t), kind)))
  /\ [][(last'.op = "AddSignature" /\ last'.res # "Ok") => accounts' = accounts]_vars

\* Bob's call through a validator that Alice owns has just been rejected.
C8_Witness ==
  /\ last = [op |-> "AddSignature", res |-> "InvalidArgument"]
  /\ \E b \in BridgeKeys :
       LET c == SignatureCall(accounts, b, 0, "Bob", Report1)
       IN /\ RecordsReady(accounts, c)
          /\ accounts[c.validator].owner = "Alice"
          /\ accounts[c.validator].blockchain_id = c.source
          /\ process_instruction(accounts, c).res = "InvalidArgument"

Sent(acc, user) == IF CanRead(acc, user, "User") THEN acc[user].sent ELSE 0
Received(acc, user) == IF CanRead(acc, user, "User") THEN acc[user].received ELSE 0

\* What a first submission leaves: acc before, acc2 after call c.
FirstSubmissionDone(acc, acc2, c) ==
  /\ Locks(acc2) = Locks(acc) \cup {c.lock}
  /\ acc2[c.lock] =
       [NewLock(acc[c.blockchain].locks, c.lock_id, c.tx_id, c.bridge,
                c.token_source_address, c.token_source, c.source, c.sender, c.recipient,
                c.destination, c.amount) EXCEPT !.signatures = 1]
  /\ acc2[c.blockchain].locks = acc[c.blockchain].locks + 1
  /\ CanRead(acc2, c.sender_user, "User")
  /\ acc2[c.sender_user].sent = Sent(acc, c.sender_user) + 1
  /\ CanRead(acc2, c.recipient_user, "User")
  /\ acc2[c.recipient_user].received = Received(acc, c.recipient_user) + 1
  /\ Count(acc2, "SentLock") = Count(acc, "SentLock") + 1
  /\ Count(acc2, "ReceivedLock") = Count(acc, "ReceivedLock") + 1

\* C9: first submission postcondition. With Bridge, Blockchain(source) and
\* the validator in place and no Lock at the transfer's Lock address, a
\* committed AddSignature creates exactly one Lock holding the claimed fields,
\* index = Blockchain.locks before, signatures = 1; Blockchain.locks grows by
\* 1; both User records exist with sender.sent and recipient.received each 1
\* higher; one sent leg and one received leg are created.
C9_FirstSubmission ==
  \A k \in ValidatorIndices(accounts) :
    \A b \in BridgeKeys, t \in Reports, p \in Callers :
      LET c == SignatureCall(accounts, b, k, p, t)
          r == process_instruction(accounts, c)
      IN (/\ ReadyFor(accounts, b, t)
          /\ ValidatorOf(accounts, b, k, p, t.source)
          /\ data_is_empty(accounts, c.lock)
          /\ r.res = "Ok")
           => FirstSubmissionDone(accounts, r.acc, c)

\* C10: repeat submission frame. A committed AddSignature whose Lock account
\* already holds a Lock writes a Signature record at an address that held
\* nothing and raises Lock.signatures by 1; every other record and every other
\* field of the Lock stay as they were, and no other record is created.
C10_RepeatSubmissionFrame ==
  \A k \in ValidatorIndices(accounts) :
    \A b \in BridgeKeys, t \in Reports, p \in Callers :
      LET c == SignatureCall(accounts, b, k, p, t)
          r == process_instruction(accounts, c)
      IN (~data_is_empty(accounts, c.lock) /\ r.res = "Ok")
           => /\ data_is_empty(accounts, c.signature_account)
              /\ CanRead(r.acc, c.signature_account, "Signature")
              /\ r.acc = Write(Write(accounts, c.signature_account,
                                     r.acc[c.signature_account]),
                               c.lock, [accounts[c.lock] EXCEPT !.signatures = @ + 1])

\* A second signature has just been recorded on a Lock.
C10_Witness ==
  /\ last = [op |-> "AddSignature", res |-> "Ok"]
  /\ \E l \in Locks(accounts) :
       /\ accounts[l].signatures = 2
       /\ \A x \in SignatureSlots(accounts, accounts[l]) : CanRead(accounts, x, "Signature")

\* The deviations that replace one address the handler compares with the one
\* it derives.
AddressKinds ==
  {"Authority", "SenderAuthority", "RecipientAuthority", "SenderUser", "RecipientUser",
   "OtherLock", "NextSignature", "NextSentLock", "NextReceivedLock"}

\* The call passes the signer, record and validator checks that precede the
\* first address comparison.
PassesGate(acc, c) ==
  /\ c.payer_signer
  /\ RecordsReady(acc, c)
  /\ CheckValidator(acc[c.validator], c.payer, c.source) = "Ok"

\* C11: address mismatch rejects before any write. An AddSignature that is
\* rejected with the address-mismatch error (InvalidSeeds) has, when the
\* handler returns, allocated no account and written no record; and a call
\* that passes the gate with another bridge authority or another Lock address
\* than the derived one is rejected with that error.
C11_MismatchRejectsBeforeWrite ==
  \A k \in ValidatorIndices(accounts) :
    \A b \in BridgeKeys, t \in Reports, p \in Callers, kind \in AddressKinds :
      LET c == Deviate(accounts, SignatureCall(accounts, b, k, p, t), kind)
          r == process_instruction(accounts, c)
      IN /\ r.res = "InvalidSeeds" => r.acc = accounts
         /\ (PassesGate(accounts, c) /\ kind \in {"Authority", "OtherLock"})
              => r.res = "InvalidSeeds"

\* The Bridge record at b is initialized.
BridgeInitialized(acc, b) == CanRead(acc, b, "Bridge") /\ is_initialized(acc[b])

\* C12: InitializeBridge is exactly-once and the owner is immutable. On an
\* initialized Bridge no InitializeBridge commits, and one signed by the owner
\* it names returns AccountAlreadyInitialized; and no step of any operation
\* changes an initialized Bridge record, so its owner stays the one the first
\* initialization wrote and its version the current one.
C12_InitializeOnce ==
  /\ [](\A c \in RegInitCalls :
          BridgeInitialized(accounts, c.bridge)
            => LET r == process_instruction(accounts, c)
               IN /\ r.res # "Ok"
                  /\ c.owner_signer => r.res = "AccountAlreadyInitialized")
  /\ [][\A b \in BridgeKeys :
          BridgeInitialized(accounts, b)
            => /\ BridgeInitialized(accounts', b)
               /\ accounts'[b].owner = accounts[b].owner]_vars

\* Bob's signed InitializeBridge on the Bridge Alice owns has just been
\* rejected, after a chain and a validator were registered under it.
C12_Witness ==
  /\ last = [op |-> "InitializeBridge", res |-> "AccountAlreadyInitialized"]
  /\ \E b \in BridgeKeys :
       /\ BridgeInitialized(accounts, b)
       /\ accounts[b].owner = "Alice"
       /\ process_instruction(accounts, InitBridgeCall(b, "Bob", TRUE)).res
            = "AccountAlreadyInitialized"
       /\ Count(accounts, "Validator") > 0

\* The Blockchain records of the store.
Blockchains(acc) == {a \in DOMAIN acc : acc[a].t = "Blockchain"}

\* C13: duplicate chain registration is rejected. An AddBlockchain for a chain
\* id whose Blockchain record exists under the bridge does not commit; signed
\* by the payer and carrying the derived authority and address it returns
\* AccountAlreadyInUse; and an AddBlockchain step leaves every existing
\* Blockchain record as it was (counters not reset, contract address kept).
C13_DuplicateChainRejected ==
  /\ [](\A c \in RegBlockchainCalls :
          LET r == process_instruction(accounts, c)
          IN ~data_is_empty(accounts, BlockchainAddress(c.bridge, c.blockchain_id))
               => /\ r.res # "Ok"
                  /\ (/\ c.payer_signer
                      /\ c.authority = BridgeAuthority(c.bridge)
                      /\ c.blockchain = BlockchainAddress(c.bridge, c.blockchain_id))
                       => r.res = "AccountAlreadyInUse")
  /\ [][last'.op = "AddBlockchain"
          => \A a \in Blockchains(accounts) :
               a \in DOMAIN accounts' /\ accounts'[a] = accounts[a]]_vars

\* ETH was registered, a validator was counted on it, and a second
\* AddBlockchain(ETH) has just been refused: the counter still reads 1.
C13_Witness ==
  /\ last = [op |-> "AddBlockchain", res |-> "AccountAlreadyInUse"]
  /\ \E b \in BridgeKeys :
       /\ CanRead(accounts, BlockchainAddress(b, ETH), "Blockchain")
       /\ accounts[BlockchainAddress(b, ETH)].validators = 1
       /\ process_instruction(accounts,
            AddBlockchainCall(b, BlockchainAddress(b, ETH), "Bob", TRUE,
                              BridgeAuthority(b), ETH)).res = "AccountAlreadyInUse"

\* The Lock records of bridge b whose stored source is the chain.
LocksOf(acc, b, chain) ==
  {l \in Locks(acc) : acc[l].bridge = b /\ acc[l].source = chain}

\* The Locks of the chain carry the distinct indices 0..locks-1 of its record.
LocksIndexed(acc, b, chain) ==
  LET bc == BlockchainAddress(b, chain)
      locks == IF CanRead(acc, bc, "Blockchain") THEN acc[bc].locks ELSE 0
  IN /\ {acc[l].index : l \in LocksOf(acc, b, chain)} = 0..(locks - 1)
     /\ Cardinality(LocksOf(acc, b, chain)) = locks

\* C14: the Lock sequence index comes from the source chain's counter. An
\* AddSignature commits only if the Blockchain record it supplies is the
\* initialized record registered for its source chain under its bridge; a
\* first submission gives the Lock that record's locks value as index and
\* raises only that counter; so for every chain the Locks with that source
\* carry the distinct indices 0..Blockchain(chain).locks-1.
C14_LockIndexFromSourceChain ==
  /\ \A k \in CrossValidatorIndices(accounts) :
       \A b \in BridgeKeys, t \in CrossReports, p \in Callers :
         \A kind \in {"None", "OtherBlockchain"} :
           LET c == Deviate(accounts, SignatureCall(accounts, b, k, p, t), kind)
               r == process_instruction(accounts, c)
           IN r.res = "Ok"
                => /\ c.blockchain = BlockchainAddress(c.bridge, c.source)
                   /\ data_is_empty(accounts, c.lock)
                        => /\ r.acc[c.lock].index = accounts[c.blockchain].locks
                           /\ \A a \in Blockchains(accounts) :
                                r.acc[a].locks =
                                  accounts[a].locks + (IF a = c.blockchain THEN 1 ELSE 0)
  /\ \A b \in BridgeKeys, chain \in RegisteredChains : LocksIndexed(accounts, b, chain)

\* The users the reports name, as (chain, address).
Users == {<<t.source, t.sender>> : t \in Reports} \cup {<<t.destination, t.recipient>> : t \in Reports}

\* The legs of user (chain, address) sit at the indices below its counters.
LegsIndexed(acc, chain, address) ==
  LET user == UserAddress(chain, address)
  IN \A i \in 0..(MaxLocks + 1) :
       /\ CanRead(acc, SentLockAddress(chain, address, i), "SentLock") <=> i < Sent(acc, user)
       /\ CanRead(acc, ReceivedLockAddress(chain, address, i), "ReceivedLock")
            <=> i < Received(acc, user)

\* C15: the User counters index the transfer legs. For every user, sent legs
\* exist at exactly the addresses derived for the indices 0..sent-1 and
\* received legs at exactly 0..received-1; a committed first submission
\* creates its sent leg at index sender.sent and its received leg at index
\* recipient.received (values before the call), at addresses that held nothing.
C15_CountersIndexLegs ==
  /\ \A u \in Users : LegsIndexed(accounts, u[1], u[2])
  /\ \A k \in ValidatorIndices(accounts) :
       \A b \in BridgeKeys, t \in Reports, p \in Callers :
         LET c == SignatureCall(accounts, b, k, p, t)
             r == process_instruction(accounts, c)
         IN (data_is_empty(accounts, c.lock) /\ r.res = "Ok")
              => /\ c.sent_lock =
                      SentLockAddress(c.source, c.sender, Sent(accounts, c.sender_user))
                 /\ c.received_lock =
                      ReceivedLockAddress(c.destination, c.recipient,
                                          Received(accounts, c.recipient_user))
                 /\ data_is_empty(accounts, c.sent_lock)
                 /\ data_is_empty(accounts, c.received_lock)
                 /\ CanRead(r.acc, c.sent_lock, "SentLock")
                 /\ CanRead(r.acc, c.received_lock, "ReceivedLock")

\* The fields of a Lock other than its signature count.
LockFields(lock) == [lock EXCEPT !.signatures = 0]

\* C16: Lock fields are immutable and the signature count is monotonic. Every
\* step keeps every existing Lock, with its index, lock id, tx id, bridge,
\* token source and address, source, sender, recipient, destination and
\* amount; its signatures value stays or grows by 1, and grows only in a
\* committed AddSignature; and a committed AddSignature on an existing Lock
\* raises that Lock's signatures by exactly 1 and no other Lock's.
C16_LockImmutable ==
  /\ [][\A l \in Locks(accounts) :
          /\ l \in Locks(accounts')
          /\ LockFields(accounts'[l]) = LockFields(accounts[l])
          /\ accounts'[l].signatures \in {accounts[l].signatures, accounts[l].signatures + 1}
          /\ accounts'[l].signatures # accounts[l].signatures
               => last' = [op |-> "AddSignature", res |-> "Ok"]]_vars
  /\ [](\A k \in ValidatorIndices(accounts) :
          \A b \in BridgeKeys, t \in Reports, p \in Callers :
            LET c == SignatureCall(accounts, b, k, p, t)
                r == process_instruction(accounts, c)
            IN (r.res = "Ok" /\ c.lock \in Locks(accounts))
                 => \A l \in Locks(accounts) :
                      r.acc[l].signatures =
                        accounts[l].signatures + (IF l = c.lock THEN 1 ELSE 0))

\* Two Locks exist; the one just signed counts two signatures and still holds
\* the amount of its first submission.
C16_Witness ==
  /\ last = [op |-> "AddSignature", res |-> "Ok"]
  /\ \E l1, l2 \in Locks(accounts) :
       /\ l1 # l2
       /\ accounts[l1].signatures = 2
       /\ accounts[l1].tx_id = TxA
       /\ accounts[l1].amount = Report1.amount
       /\ accounts[l2].signatures = 1

\* The User records of the store.
UserRecords(acc) == {a \in DOMAIN acc : acc[a].t = "User"}

\* The counter goes from old to new in a step that commits operation op and
\* creates one record of type t, or it stays.
CountsOne(old, new, acc, acc2, op, t, committed) ==
  /\ new \in {old, old + 1}
  /\ new = old + 1 => (committed.op = op /\ committed.res = "Ok"
                       /\ Count(acc2, t) = Count(acc, t) + 1)

\* C17: the counters are monotonic sequence generators. In every step each
\* Blockchain.validators, Blockchain.locks, User.sent and User.received stays
\* or grows by exactly 1, and grows only in a committed operation that also
\* creates a Validator, Lock, sent leg or received leg respectively; a User
\* record that did not exist counts as holding 0 and 0.
C17_MonotonicCounters ==
  [][/\ \A a \in Blockchains(accounts) :
          /\ a \in Blockchains(accounts')
          /\ CountsOne(accounts[a].validators, accounts'[a].validators, accounts, accounts',
                       "AddValidator", "Validator", last')
          /\ CountsOne(accounts[a].locks, accounts'[a].locks, accounts, accounts',
                       "AddSignature", "Lock", last')
     /\ \A u \in UserRecords(accounts) : u \in UserRecords(accounts')
     /\ \A u \in UserRecords(accounts') :
          /\ CountsOne(Sent(accounts, u), accounts'[u].sent, accounts, accounts',
                       "AddSignature", "SentLock", last')
          /\ CountsOne(Received(accounts, u), accounts'[u].received, accounts, accounts',
                       "AddSignature", "ReceivedLock", last')]_vars

\* A second first submission has just raised ETH's locks counter to 2, after
\* two validators were counted; a user has sent once and received once.
C17_Witness ==
  /\ last = [op |-> "AddSignature", res |-> "Ok"]
  /\ \E b \in BridgeKeys :
       /\ CanRead(accounts, BlockchainAddress(b, ETH), "Blockchain")
       /\ accounts[BlockchainAddress(b, ETH)].locks = 2
       /\ accounts[BlockchainAddress(b, ETH)].validators = 2
  /\ \E u \in UserRecords(accounts) : accounts[u].sent = 1 /\ accounts[u].received = 1

\* The calls clients prepare from the accounts as they read them.
PreparedCalls(acc) ==
  SigValidatorCalls(acc)
    \cup {SignatureCall(acc, b, k, p, t) :
            b \in BridgeKeys, k \in ValidatorIndices(acc), p \in Callers, t \in Reports}

\* The addresses a call allocates when it runs on acc and commits.
Creates(acc, c) ==
  LET r == process_instruction(acc, c)
  IN IF r.res = "Ok" THEN DOMAIN r.acc \ DOMAIN acc ELSE {}

\* Each prepared call with what it returns when it runs first.
Outcomes(acc) == {<<c, process_instruction(acc, c)>> : c \in PreparedCalls(acc)}

\* The addresses a committed outcome allocated.
Allocated(acc, x) == DOMAIN x[2].acc \ DOMAIN acc

\* C18: allocate-once under races. Every instruction is one atomic step (a
\* rejected one changes nothing); and of two calls prepared from the same
\* accounts that would each, alone, create a record at the same address, the
\* one serialized second is rejected once the first has committed, so the
\* winner's record is not overwritten and no counter advances twice.
C18_AllocateOnce ==
  /\ [][last'.res # "Ok" => accounts' = accounts]_vars
  /\ [](LET winners == {x \in Outcomes(accounts) : x[2].res = "Ok"}
        IN \A x, y \in winners :
             Allocated(accounts, x) \cap Allocated(accounts, y) # {}
               => process_instruction(x[2].acc, y[1]).res # "Ok")

\* Two validators of ETH can each, alone, create the Lock of Report1, and the
\* call of the second is rejected behind the call of the first.
C18_Witness ==
  /\ last = [op |-> "AddValidator", res |-> "Ok"]
  /\ \E b \in BridgeKeys :
       LET c1 == SignatureCall(accounts, b, 0, "Alice", Report1)
           c2 == SignatureCall(accounts, b, 1, "Alice", Report1)
       IN /\ c1.lock \in Creates(accounts, c1) \cap Creates(accounts, c2)
          /\ process_instruction(process_instruction(accounts, c1).acc, c2).res
               = "InvalidSeeds"

\* Validators k1 and k2 prepare their calls for report t from acc; the call of
\* k1 runs first, then the call of k2: both commit and the Lock counts 2 more.
BothAccepted(acc, b, k1, k2, p, t) ==
  LET c1 == SignatureCall(acc, b, k1, p, t)
      c2 == SignatureCall(acc, b, k2, p, t)
      r1 == process_instruction(acc, c1)
      r2 == process_instruction(r1.acc, c2)
  IN /\ r1.res = "Ok"
     /\ r2.res = "Ok"
     /\ r2.acc[c1.lock].signatures = acc[c1.lock].signatures + 2

\* C19: signature acceptance is independent of the submission order. For an
\* existing Lock and two different registered validators that have not signed
\* it and prepared their calls, Signature address included, from the same
\* accounts, both calls commit in either order and Lock.signatures ends 2
\* higher.
C19_OrderIndependent ==
  \A k1, k2 \in CrossValidatorIndices(accounts) :
    \A b \in BridgeKeys, t \in CrossReports, p \in Callers :
      LET c1 == SignatureCall(accounts, b, k1, p, t)
          c2 == SignatureCall(accounts, b, k2, p, t)
      IN (/\ k1 # k2
          /\ ReadyFor(accounts, b, t)
          /\ ValidatorOf(accounts, b, k1, p, t.source)
          /\ ValidatorOf(accounts, b, k2, p, t.source)
          /\ CanRead(accounts, c1.lock, "Lock")
          /\ accounts[c1.lock].tx_id = t.tx_id
          /\ ~AlreadySigned(accounts, c1)
          /\ ~AlreadySigned(accounts, c2))
           => BothAccepted(accounts, b, k1, k2, p, t)

\* What reading a dependency record yields: the account holds no such record,
\* a record of another version, or an initialized record.
Dependency(acc, a, t) ==
  IF ~CanRead(acc, a, t) THEN "BorshIoError"
  ELSE IF acc[a].version # PROGRAM_VERSION THEN "UninitializedAccount"
  ELSE "Ok"

\* The first of Bridge, Blockchain and Validator that is not ready.
FirstMissing(acc, c) ==
  IF Dependency(acc, c.bridge, "Bridge") # "Ok" THEN Dependency(acc, c.bridge, "Bridge")
  ELSE IF Dependency(acc, c.blockchain, "Blockchain") # "Ok"
    THEN Dependency(acc, c.blockchain, "Blockchain")
  ELSE Dependency(acc, c.validator, "Validator")

\* C20 as stated: an AddSignature whose Bridge, Blockchain or Validator record
\* is absent or has a version other than the current one returns
\* UninitializedAccount and writes nothing.
C20_MissingIsUninitialized ==
  \A k \in ValidatorIndices(accounts) :
    \A b \in BridgeKeys, t \in Reports, p \in Callers :
      LET c == SignatureCall(accounts, b, k, p, t)
          r == process_instruction(accounts, c)
      IN FirstMissing(accounts, c) # "Ok"
           => r.res = "UninitializedAccount" /\ r.acc = accounts

\* C20 (amended): a signed AddSignature whose Bridge, Blockchain or Validator
\* record has a version other than the current one returns
\* UninitializedAccount, and one whose account holds no such record returns
\* BorshIoError (the first of the three in that order decides); either way the
\* handler has written nothing.
C20_MissingDependencyRejected ==
  \A k \in ValidatorIndices(accounts) :
    \A b \in BridgeKeys, t \in Reports, p \in Callers :
      LET c == SignatureCall(accounts, b, k, p, t)
          r == process_instruction(accounts, c)
      IN FirstMissing(accounts, c) # "Ok"
           => r.res = FirstMissing(accounts, c) /\ r.acc = accounts

\* An AddSignature has just been rejected on a Bridge account that is
\* allocated and not initialized; none of its records exists.
C20_Witness ==
  /\ last = [op |-> "AddSignature", res |-> "UninitializedAccount"]
  /\ \E b \in BridgeKeys :
       /\ CanRead(accounts, b, "Bridge") /\ accounts[b].version = 0
       /\ DOMAIN accounts = {b}

\* C21: codec round trip. Decoding the encoded id of a chain-id text of at
\* most 4 bytes (the texts are valid UTF-8; they include texts beginning or
\* ending with NUL) succeeds and returns exactly the text.
C21_CodecRoundTrip ==
  last.op = "Decode" => (last.res = "Ok" /\ last.out = Str(last.text))

\* C22: codec overflow is an error value. Encoding a text longer than 4 bytes
\* returns a codec error (InvalidArgument / CodecFailure) to the caller; it
\* never panics.
C22_CodecOverflowIsError ==
  (last.op = "Encode" /\ Len(last.text) > CHAIN_ID_LEN)
    => last.res \in {"InvalidArgument", "CodecFailure"}


\* The addresses of c match: the authority is the one derived from the bridge
\* and the Blockchain reference the one derived from the authority and
\* "blockchain_{chain}".
BlockchainDerived(c) ==
  /\ c.authority = FindProgramAddress(c.bridge)
  /\ c.blockchain = CreateWithSeed(c.authority, BlockchainSeed(c.blockchain_id))

\* C23: AddBlockchain effect and gate. An AddBlockchain returns Ok only if its
\* authority is the one derived from the bridge and its Blockchain reference
\* the address derived from (authority, "blockchain_{chain}"); a successful
\* one creates exactly one record, the Blockchain (current version, bridge,
\* blockchain_id, validators 0, locks 0, contract_address), at that address and
\* changes no other record; one whose addresses do not match returns
\* InvalidSeeds and has allocated nothing.
C23_AddBlockchainEffect ==
  \A c \in RegBlockchainCalls :
    LET r == process_instruction(accounts, c)
    IN /\ r.res = "Ok"
            => /\ BlockchainDerived(c)
               /\ DOMAIN r.acc = DOMAIN accounts \cup {c.blockchain}
               /\ c.blockchain \notin DOMAIN accounts
               /\ r.acc[c.blockchain]
                    = [t |-> "Blockchain", version |-> PROGRAM_VERSION,
                       bridge |-> c.bridge, blockchain_id |-> c.blockchain_id,
                       validators |-> 0, locks |-> 0,
                       contract_address |-> c.contract_address]
               /\ \A a \in DOMAIN accounts : r.acc[a] = accounts[a]
       /\ ~BlockchainDerived(c) => (r.res = "InvalidSeeds" /\ r.acc = accounts)

\* BSC has been registered next to other records, and an AddBlockchain whose
\* Blockchain reference is not the derived address has just been rejected.
C23_Witness ==
  /\ last = [op |-> "AddBlockchain", res |-> "InvalidSeeds"]
  /\ \E b \in BridgeKeys :
       /\ CanRead(accounts, BlockchainAddress(b, BSC), "Blockchain")
       /\ accounts[BlockchainAddress(b, BSC)].blockchain_id = BSC
       /\ BridgeInitialized(accounts, b)


\* C24: AddValidator effect. A successful AddValidator(chain_id, public_key)
\* creates exactly one record, a Validator with the current version,
\* blockchain_id = chain_id, index = the validators counter that the Blockchain
\* record of the call held before the call, pub_key = public_key and owner =
\* the payer, who signed; the Blockchain record's validators is raised by
\* exactly 1, its other fields and every other record are unchanged.
C24_AddValidatorEffect ==
  \A c \in RegValidatorCalls(accounts) :
    LET r == process_instruction(accounts, c)
    IN r.res = "Ok"
         => /\ CanRead(accounts, c.blockchain, "Blockchain")
            /\ c.payer_signer
            /\ c.validator \notin DOMAIN accounts
            /\ DOMAIN r.acc = DOMAIN accounts \cup {c.validator}
            /\ r.acc[c.validator]
                 = [t |-> "Validator", version |-> PROGRAM_VERSION,
                    blockchain_id |-> c.blockchain_id,
                    index |-> accounts[c.blockchain].validators,
                    pub_key |-> c.pub_key, owner |-> c.payer]
            /\ r.acc[c.blockchain].validators = accounts[c.blockchain].validators + 1
            /\ \A f \in {"t", "version", "bridge", "blockchain_id", "locks",
                         "contract_address"} :
                 r.acc[c.blockchain][f] = accounts[c.blockchain][f]
            /\ \A a \in DOMAIN accounts \ {c.blockchain} : r.acc[a] = accounts[a]

\* Bob has just registered the second validator of BSC, next to ETH's record
\* and its validator: the new record stores index 1 and owner Bob.
C24_Witness ==
  /\ last = [op |-> "AddValidator", res |-> "Ok"]
  /\ \E b \in BridgeKeys :
       /\ CanRead(accounts, BlockchainAddress(b, BSC), "Blockchain")
       /\ accounts[BlockchainAddress(b, BSC)].validators = 2
       /\ CanRead(accounts, ValidatorAddress(b, BSC, 1), "Validator")
       /\ accounts[ValidatorAddress(b, BSC, 1)].index = 1
       /\ accounts[ValidatorAddress(b, BSC, 1)].owner = "Bob"
       /\ CanRead(accounts, ValidatorAddress(b, ETH, 0), "Validator")


\* No initialized Blockchain record exists for the chain id of c: the address
\* derived from it is unused or holds a record of another version.
ChainUnregistered(acc, c) ==
  LET bc == BlockchainAddress(c.bridge, c.blockchain_id)
  IN ~(CanRead(acc, bc, "Blockchain") /\ acc[bc].version = PROGRAM_VERSION)

\* C25: AddValidator requires a registered chain. An AddValidator for a chain
\* id that has no initialized Blockchain record returns UninitializedAccount,
\* creates no Validator record and advances no counter.
C25_AddValidatorNeedsChain ==
  \A c \in RegValidatorCalls(accounts) :
    ChainUnregistered(accounts, c)
      => LET r == process_instruction(accounts, c)
         IN /\ r.res = "UninitializedAccount"
            /\ r.acc = accounts


C27_SignatureContent ==
  \A l \in Locks(accounts) :
    \A a \in SignatureSlots(accounts, accounts[l]) :
      CanRead(accounts, a, "Signature")
        => LET s == accounts[a]
           IN /\ s.version = PROGRAM_VERSION
              /\ s.bridge = accounts[l].bridge
              /\ s.signature = SignatureBytes
              /\ CanRead(accounts, s.validator, "Validator")
              /\ s.index = accounts[s.validator].index
              /\ {"source", "lock_id"} \subseteq DOMAIN s
              /\ s.source = accounts[l].source
              /\ s.lock_id = accounts[l].lock_id


\* The transfer-leg records of the store.
Legs(acc) == {a \in DOMAIN acc : acc[a].t \in {"SentLock", "ReceivedLock"}}

\* C28: transfer-leg content. Every sent or received leg stores the current
\* version, the tx_id of a Lock, that Lock's source chain and lock id, the
\* address of the Lock and reverted = false; and the stored Lock address holds
\* an initialized Lock with the same tx_id.
C28_TransferLegContent ==
  \A a \in Legs(accounts) :
    LET leg == accounts[a]
    IN /\ leg.version = PROGRAM_VERSION
       /\ \E l \in Locks(accounts) : accounts[l].tx_id = leg.tx_id
       /\ {"source", "lock_id", "lock_account", "reverted"} \subseteq DOMAIN leg
       /\ CanRead(accounts, leg.lock_account, "Lock")
       /\ accounts[leg.lock_account].version = PROGRAM_VERSION
       /\ accounts[leg.lock_account].tx_id = leg.tx_id
       /\ accounts[leg.lock_account].source = leg.source
       /\ accounts[leg.lock_account].lock_id = leg.lock_id
       /\ leg.reverted = FALSE


\* The Lock and Signature records a committed result created or changed.
LockRecordsWritten(acc, r) ==
  {a \in DOMAIN r.acc : /\ r.acc[a].t \in {"Lock", "Signature"}
                        /\ (a \in DOMAIN acc => acc[a] # r.acc[a])}

\* C29: the revert flag separates lock and reversal flows. Of two
\* AddSignature calls for the same (source chain, tx_id, lock_id), one with
\* revert = true and one with revert = false, that each commit, the Lock
\* record and the Signature slot of the one are not those of the other: a
\* reversal's signature does not count on the forward Lock, and vice versa.
C29_RevertSeparatesFlows ==
  \A k \in ValidatorIndices(accounts) :
    \A b \in BridgeKeys, t \in Reports, p \in Callers :
      LET c == SignatureCall(accounts, b, k, p, t)
          forward == process_instruction(accounts, WithRevert(c, FALSE))
          reversal == process_instruction(accounts, WithRevert(c, TRUE))
      IN (forward.res = "Ok" /\ reversal.res = "Ok")
           => LockRecordsWritten(accounts, forward)
                \cap LockRecordsWritten(accounts, reversal) = {}


\* A Validator record with blockchain_id = chain exists in acc.
HasValidatorOf(acc, chain) ==
  \E v \in DOMAIN acc : acc[v].t = "Validator" /\ acc[v].blockchain_id = chain

\* The source chain of the record at a new address: a Lock's own, a
\* Signature's that of the Lock whose slot it fills.
SourcesOf(acc, a) ==
  IF acc[a].t = "Lock" THEN {acc[a].source}
  ELSE {acc[l].source : l \in {x \in Locks(acc) : a \in SignatureSlots(acc, acc[x])}}

\* C30: dependency ordering. In every step, a Lock or Signature record with
\* source chain c is created only if a Validator record with blockchain_id = c
\* existed before the step; a Validator record with blockchain_id = c only if
\* the Blockchain record for c existed; and a Blockchain record only if its
\* Bridge was initialized.
C30_DependencyOrdering ==
  [][\A a \in DOMAIN accounts' \ DOMAIN accounts :
       LET rec == accounts'[a]
       IN /\ rec.t \in {"Lock", "Signature"}
               => \A chain \in SourcesOf(accounts', a) : HasValidatorOf(accounts, chain)
          /\ rec.t = "Validator"
               => \E b \in BridgeKeys :
                    CanRead(accounts, BlockchainAddress(b, rec.blockchain_id), "Blockchain")
          /\ rec.t = "Blockchain" => BridgeInitialized(accounts, rec.bridge)]_vars


\* The initialized records of the store.
Initialized(acc) == {a \in DOMAIN acc : acc[a].version = PROGRAM_VERSION}

\* C31: records are created once and never leave the initialized state. In
\* every step, a record of any type that is initialized stays at its address
\* with its type and the current version (no operation deletes it or leaves
\* it zeroed by a new allocation), and an initialized Validator or Signature
\* record keeps every field.
C31_StaysInitialized ==
  [][\A a \in Initialized(accounts) :
       /\ a \in DOMAIN accounts'
       /\ accounts'[a].t = accounts[a].t
       /\ accounts'[a].version = PROGRAM_VERSION
       /\ accounts[a].t \in {"Validator", "Signature"} => accounts'[a] = accounts[a]]_vars

\* Records of all seven types are initialized, and AddSignature calls have
\* since gone through the existing Lock, Blockchain and User records: the
\* Lock counts two signatures and ETH two locks.
C31_Witness ==
  /\ last = [op |-> "AddSignature", res |-> "Ok"]
  /\ {accounts[a].t : a \in Initialized(accounts)}
       = {"Bridge", "Blockchain", "Validator", "Lock", "Signature", "User", "SentLock",
          "ReceivedLock"}
  /\ \E l \in Locks(accounts) : accounts[l].signatures = 2
  /\ \E b \in Blockchains(accounts) : accounts[b].locks = 2


\* The Signature records stored for the (source chain, lock id) of a Lock.
SignaturesFor(acc, lock) ==
  {i \in 0..(MaxSignatures + 1) :
     CanRead(acc, SignatureAddress(lock.bridge, lock.source, lock.lock_id, i), "Signature")}

\* C32: the signature count matches the stored attestations. For every Lock,
\* Lock.signatures is at least 1 and is the number of Signature records that
\* exist for the Lock's (source chain, lock id); and every Signature record
\* is one of those of an existing Lock.
C32_SignatureCountMatches ==
  /\ \A l \in Locks(accounts) :
       /\ accounts[l].signatures >= 1
       /\ Cardinality(SignaturesFor(accounts, accounts[l])) = accounts[l].signatures
  /\ \A a \in DOMAIN accounts :
       accounts[a].t = "Signature"
         => \E l \in Locks(accounts) :
              \E i \in SignaturesFor(accounts, accounts[l]) :
                a = SignatureAddress(accounts[l].bridge, accounts[l].source,
                                     accounts[l].lock_id, i)


\* C33: the signature count is bounded by the validator set. For every Lock
\* with source chain c, the Blockchain record of c exists and Lock.signatures
\* is at most its validators counter.
C33_SignaturesBoundedByValidators ==
  \A l \in Locks(accounts) :
    LET bc == BlockchainAddress(accounts[l].bridge, accounts[l].source)
    IN /\ CanRead(accounts, bc, "Blockchain")
       /\ accounts[l].signatures <= accounts[bc].validators


\* C34: User records stay well-formed. Every record stored at the address
\* derived from a user's (chain, address) is an initialized User record with
\* that blockchain_id and address; and a first-submission AddSignature whose
\* sender and recipient are the same user of the same chain leaves that one
\* User record with sent and received each exactly 1 higher than before.
C34_UsersWellFormed ==
  /\ \A u \in Users :
       LET a == UserAddress(u[1], u[2])
       IN ~data_is_empty(accounts, a)
            => /\ CanRead(accounts, a, "User")
               /\ accounts[a].version = PROGRAM_VERSION
               /\ accounts[a].blockchain_id = u[1]
               /\ accounts[a].address = u[2]
  /\ \A k \in ValidatorIndices(accounts) :
       \A b \in BridgeKeys, p \in Callers :
         LET c == SignatureCall(accounts, b, k, p, ReportSelf)
             r == process_instruction(accounts, c)
         IN (data_is_empty(accounts, c.lock) /\ r.res = "Ok")
              => /\ c.sender_user = c.recipient_user
                 /\ r.acc[c.sender_user].sent = Sent(accounts, c.sender_user) + 1
                 /\ r.acc[c.sender_user].received = Received(accounts, c.sender_user) + 1


\* C35: chain ids address distinct records. Any two different chain ids
\* (valid UTF-8, among them ids that differ only in leading or trailing zero
\* bytes) have different Blockchain, Validator, Lock, Signature and User
\* seeds; so each registered chain id has its own Blockchain record, stored
\* at its own address with its own id and counters.
C35_ChainIdsAddressDistinctRecords ==
  /\ \A b1, b2 \in ChainIds :
       (b1 # b2 /\ Utf8Valid(b1) /\ Utf8Valid(b2))
         => /\ BlockchainSeed(b1) # BlockchainSeed(b2)
            /\ ValidatorSeed(b1, 0) # ValidatorSeed(b2, 0)
            /\ LockSeed(b1, TxA) # LockSeed(b2, TxA)
            /\ SignatureSeed(b1, 1, 0) # SignatureSeed(b2, 1, 0)
            /\ UserSeed(b1) # UserSeed(b2)
  /\ \A b \in BridgeKeys, id \in ChainIds :
       LET bc == BlockchainAddress(b, id)
       IN ~data_is_empty(accounts, bc)
            => (CanRead(accounts, bc, "Blockchain") /\ accounts[bc].blockchain_id = id)


\* Lock l of acc has the bridge, source chain and lock id of call c.
SameLockId(acc, l, c) ==
  /\ acc[l].bridge = c.bridge
  /\ acc[l].source = c.source
  /\ acc[l].lock_id = c.lock_id

\* C36: at most one Lock per lock id. No two Lock records of a bridge share
\* (source chain, lock id); a first submission (the Lock address of its tx_id
\* is unused) that names the lock id of an existing Lock of the same source
\* chain is rejected; and a rejected instruction changes nothing, so it
\* creates no Lock, User or leg record and advances no counter.
C36_OneLockPerLockId ==
  /\ [](/\ \A l1, l2 \in Locks(accounts) :
             SameLockId(accounts, l1, accounts[l2]) => l1 = l2
        /\ \A k \in ValidatorIndices(accounts) :
             \A b \in BridgeKeys, t \in LockIdReports :
               LET c == SignatureCall(accounts, b, k, "Alice", t)
               IN (/\ data_is_empty(accounts, c.lock)
                   /\ \E l \in Locks(accounts) : SameLockId(accounts, l, c))
                    => process_instruction(accounts, c).res # "Ok")
  /\ [][last'.res # "Ok" => accounts' = accounts]_vars

\* The Lock of tx [9; 64] holds lock id 1, and a first submission of another
\* transaction under lock id 1 has just been rejected: the Signature slot 0
\* of (ETH, 1) is taken.
C36_Witness ==
  /\ last = [op |-> "AddSignature", res |-> "AccountAlreadyInUse"]
  /\ \E b \in BridgeKeys :
       LET c == SignatureCall(accounts, b, 0, "Alice", ReportReusedLockId)
       IN /\ data_is_empty(accounts, c.lock)
          /\ CanRead(accounts, LockAddress(b, ETH, TxA), "Lock")
          /\ accounts[LockAddress(b, ETH, TxA)].lock_id = c.lock_id
          /\ process_instruction(accounts, c).res = "AccountAlreadyInUse"


\* The Blockchain, Validator, Lock and Signature records at the addresses
\* derived from bridge b's authority, and the User records that the Locks of
\* b name and no Lock of another bridge does: the records that operations on
\* bridge b created.
RecordsOfBridge(acc, b) ==
  LET derived ==
        {BlockchainAddress(b, ETH), LockAddress(b, ETH, Report1.tx_id)}
          \cup {ValidatorAddress(b, ETH, k) : k \in 0..(MaxValidators + 1)}
          \cup {SignatureAddress(b, ETH, Report1.lock_id, i) : i \in 0..(MaxSignatures + 1)}
      named(l) == {UserAddress(acc[l].source, acc[l].sender),
                   UserAddress(acc[l].destination, acc[l].recipient)}
      users ==
        UNION {named(l) : l \in {x \in Locks(acc) : acc[x].bridge = b}}
          \ UNION {named(l) : l \in {x \in Locks(acc) : acc[x].bridge # b}}
  IN (derived \cup users) \cap DOMAIN acc

\* C37: bridge isolation. With two bridges A and B initialized, an operation
\* invoked with bridge B's account and derived authority leaves every
\* Blockchain, Validator, Lock, Signature and User record created by
\* operations on bridge A unchanged, and an A-operation returns the same
\* result after it as before it.
C37_BridgeIsolation ==
  \A A, B \in IsoBridges :
    (A # B /\ BridgeInitialized(accounts, A) /\ BridgeInitialized(accounts, B))
      => \A cB \in IsoCalls(accounts, B) :
           LET rB == process_instruction(accounts, cB)
           IN rB.res = "Ok"
                => /\ \A a \in RecordsOfBridge(accounts, A) : rB.acc[a] = accounts[a]
                   /\ \A cA \in IsoCalls(accounts, A) :
                        process_instruction(rB.acc, cA).res
                          = process_instruction(accounts, cA).res


\* The addresses whose record acc2 creates or holds changed from acc.
Written(acc, acc2) ==
  {a \in DOMAIN acc2 : a \in DOMAIN acc => acc[a] # acc2[a]}

\* Record new is record old but for the fields in fields.
OnlyFields(old, new, fields) ==
  /\ DOMAIN new = DOMAIN old
  /\ \A f \in DOMAIN old \ fields : new[f] = old[f]

\* C38: write sets per operation. A committed InitializeBridge writes only
\* the existing Bridge record; AddBlockchain only one new Blockchain record;
\* AddValidator only one new Validator record and the validators field of an
\* existing Blockchain record; AddSignature changes no Bridge or Validator
\* record and of a Blockchain record at most locks (never validators, bridge,
\* blockchain_id or contract_address); no operation removes a record; and a
\* failed operation of any kind leaves every record unchanged.
C38_WriteSets ==
  [][LET w == Written(accounts, accounts')
         new == w \ DOMAIN accounts
         old == w \cap DOMAIN accounts
     IN /\ DOMAIN accounts \subseteq DOMAIN accounts'
        /\ last'.res # "Ok" => accounts' = accounts
        /\ (last'.op = "InitializeBridge" /\ last'.res = "Ok")
             => /\ new = {}
                /\ Cardinality(old) = 1
                /\ \A a \in old : accounts[a].t = "Bridge" /\ accounts'[a].t = "Bridge"
        /\ (last'.op = "AddBlockchain" /\ last'.res = "Ok")
             => /\ old = {}
                /\ Cardinality(new) = 1
                /\ \A a \in new : accounts'[a].t = "Blockchain"
        /\ (last'.op = "AddValidator" /\ last'.res = "Ok")
             => /\ Cardinality(new) = 1
                /\ \A a \in new : accounts'[a].t = "Validator"
                /\ Cardinality(old) = 1
                /\ \A a \in old : /\ accounts[a].t = "Blockchain"
                                  /\ OnlyFields(accounts[a], accounts'[a], {"validators"})
        /\ (last'.op = "AddSignature" /\ last'.res = "Ok")
             => /\ \A a \in new : accounts'[a].t \notin {"Bridge", "Blockchain", "Validator"}
                /\ \A a \in old :
                     /\ accounts[a].t \notin {"Bridge", "Validator"}
                     /\ accounts[a].t = "Blockchain"
                          => OnlyFields(accounts[a], accounts'[a], {"locks"})]_vars

\* A first AddSignature has just been committed: it wrote the locks counter
\* of ETH's record next to the new Lock, after the bridge, the chain and two
\* validators were written by their operations.
C38_Witness ==
  /\ last = [op |-> "AddSignature", res |-> "Ok"]
  /\ Count(accounts, "Validator") = 2
  /\ Count(accounts, "Lock") = 1
  /\ Count(accounts, "Signature") = 1
  /\ \E b \in Blockchains(accounts) : accounts[b].locks = 1 /\ accounts[b].validators = 2

====
